---- MODULE Spec2Model ----
(***************************************************************************)
(* A model of langwatch's OpenTelemetry ingestion transform                *)
(* (src/langwatch/src/server/tracer/opentelemetry.ts).                     *)
(*                                                                         *)
(* JavaScript values are tagged records of one shape, so that any two of   *)
(* them can be compared: t is the tag, b / n / s hold a boolean, a number, *)
(* a string, and kids holds the own properties of an object or an array as *)
(* a sequence of [k, v] in JavaScript's property order (integer-like keys  *)
(* ascending, then the other keys in insertion order). A number of 2^31 or  *)
(* more in magnitude holds its digits in w.                                *)
(*                                                                         *)
(* Every specification starts from a family of requests and repeats        *)
(* Convert, the call of openTelemetryTraceRequestToTracesForCollection:    *)
(* Spec (grouping, ids), SpecMapper (attributes with repeated keys), and   *)
(* one family for each convention of the Semantic Mapper: SpecModel,       *)
(* SpecEntity, SpecError, SpecLong, SpecArray, SpecType, SpecInput,        *)
(* SpecOutput, SpecParams, SpecStream, SpecTime, SpecResource, SpecValue,  *)
(* SpecMetadata, SpecToken.                                                *)
(***************************************************************************)
EXTENDS Integers, Sequences, FiniteSets, TLC

VARIABLES payload, original, snapshots, results

vars == <<payload, original, snapshots, results>>

(***************************************************************************)
(* Bounds of the model.                                                    *)
(***************************************************************************)
MaxSpans == 3
MaxIdLen == 2
MaxCalls == 2

(***************************************************************************)
(* JavaScript values.                                                      *)
(***************************************************************************)
\* A value is its type t and the field of that type: b, n, s or kids. A
\* number beyond TLC's integers (2^31 and more in magnitude) has n = 0 and its
\* magnitude in w, as digits in base 2^16 from the least one, and its sign in
\* b (TRUE for a negative number).
Undef ==
  [t |-> "undefined", b |-> FALSE, n |-> 0, s |-> "", kids |-> <<>>, w |-> <<>>]

Null == [t |-> "null", b |-> FALSE, n |-> 0, s |-> "", kids |-> <<>>, w |-> <<>>]

Bool(x) == [t |-> "bool", b |-> x, n |-> 0, s |-> "", kids |-> <<>>, w |-> <<>>]

Num(x) == [t |-> "num", b |-> FALSE, n |-> x, s |-> "", kids |-> <<>>, w |-> <<>>]

Str(x) == [t |-> "str", b |-> FALSE, n |-> 0, s |-> x, kids |-> <<>>, w |-> <<>>]

Obj(ks) == [t |-> "obj", b |-> FALSE, n |-> 0, s |-> "", kids |-> ks, w |-> <<>>]

Arr(ks) == [t |-> "arr", b |-> FALSE, n |-> 0, s |-> "", kids |-> ks, w |-> <<>>]

Wide(neg, mag) ==
  [t |-> "num", b |-> neg, n |-> 0, s |-> "", kids |-> <<>>, w |-> mag]

KV(key, val) == [k |-> key, v |-> val]

\* The decimal spelling of the array indexes the model uses.
IndexKeys == <<"0", "1", "2", "3", "4", "5">>

\* /^\d+$/.test(k)
IsDigits(k) == \E i \in 1..Len(IndexKeys) : IndexKeys[i] = k

IndexOf(k) == (CHOOSE i \in 1..Len(IndexKeys) : IndexKeys[i] = k) - 1

\* A dense array holding the values of vs, in order.
ArrOf(vs) == Arr([i \in 1..Len(vs) |-> KV(IndexKeys[i], vs[i])])

\* ToBoolean
Truthy(v) ==
  CASE v.t = "undefined" -> FALSE
    [] v.t = "null" -> FALSE
    [] v.t = "bool" -> v.b
    [] v.t = "num" -> v.n # 0 \/ v.w # <<>>
    [] v.t = "str" -> v.s # ""
    [] OTHER -> TRUE

IsObject(v) == v.t \in {"obj", "arr"}

HasKey(v, key) == IsObject(v) /\ \E i \in 1..Len(v.kids) : v.kids[i].k = key

\* v[key], and v?.[key]: undefined on anything that has no such own property.
Prop(v, key) ==
  IF HasKey(v, key)
  THEN v.kids[CHOOSE i \in 1..Len(v.kids) : v.kids[i].k = key].v
  ELSE Undef

RECURSIVE GetPath(_, _)
\* v?.p1?.p2 ...
GetPath(v, path) ==
  IF path = <<>> THEN v ELSE GetPath(Prop(v, Head(path)), Tail(path))

\* A property order that is the insertion order for every key.
InsertAtEnd(kids, key) == Len(kids) + 1

\* Where a new property key goes in the property order of kids.
InsertAt(kids, key) ==
  IF IsDigits(key)
  THEN Cardinality({i \in 1..Len(kids) :
         IsDigits(kids[i].k) /\ IndexOf(kids[i].k) < IndexOf(key)}) + 1
  ELSE Len(kids) + 1

\* kids with kid put at place at.
InsertKid(kids, at, kid) ==
  SubSeq(kids, 1, at - 1) \o <<kid>> \o SubSeq(kids, at, Len(kids))

\* v[key] = val, on an object or an array.
SetProp(v, key, val) ==
  IF HasKey(v, key)
  THEN [v EXCEPT !.kids =
         [i \in 1..Len(v.kids) |->
           IF v.kids[i].k = key THEN KV(key, val) ELSE v.kids[i]]]
  ELSE [v EXCEPT !.kids = InsertKid(v.kids, InsertAt(v.kids, key), KV(key, val))]

\* delete v[key]
DeleteProp(v, key) ==
  IF IsObject(v)
  THEN [v EXCEPT !.kids = SelectSeq(v.kids, LAMBDA e : e.k # key)]
  ELSE v

RECURSIVE DeletePath(_, _)
\* delete v.p1.p2...pn, when every container on the way exists.
DeletePath(v, path) ==
  IF path = <<>> \/ ~IsObject(v) THEN v
  ELSE IF Len(path) = 1 THEN DeleteProp(v, Head(path))
  ELSE IF HasKey(v, Head(path))
       THEN SetProp(v, Head(path), DeletePath(Prop(v, Head(path)), Tail(path)))
       ELSE v

\* { ...a, ...b } for objects a and b.
RECURSIVE SpreadKids(_, _)
SpreadKids(a, ks) ==
  IF ks = <<>> THEN a
  ELSE SpreadKids(SetProp(a, Head(ks).k, Head(ks).v), Tail(ks))

Spread(a, b) == IF IsObject(b) THEN SpreadKids(a, b.kids) ELSE a

(***************************************************************************)
(* Identifiers are strings, modelled as sequences of characters; the       *)
(* sequence Undefined stands for a missing identifier.                     *)
(***************************************************************************)
Undefined == <<"undefined">>

B64Alphabet ==
  <<"A", "B", "C", "D", "E", "F", "G", "H", "I", "J", "K", "L", "M",
    "N", "O", "P", "Q", "R", "S", "T", "U", "V", "W", "X", "Y", "Z",
    "a", "b", "c", "d", "e", "f", "g", "h", "i", "j", "k", "l", "m",
    "n", "o", "p", "q", "r", "s", "t", "u", "v", "w", "x", "y", "z",
    "0", "1", "2", "3", "4", "5", "6", "7", "8", "9", "+", "/">>

HexDigits ==
  <<"0", "1", "2", "3", "4", "5", "6", "7", "8", "9",
    "a", "b", "c", "d", "e", "f">>

IsB64(c) == \E i \in 1..64 : B64Alphabet[i] = c

B64Val(c) == (CHOOSE i \in 1..64 : B64Alphabet[i] = c) - 1

\* The characters before the first "=", which ends the decoding.
RECURSIVE BeforePadding(_)
BeforePadding(cs) ==
  IF cs = <<>> \/ Head(cs) = "=" THEN <<>>
  ELSE <<Head(cs)>> \o BeforePadding(Tail(cs))

\* The 6-bit groups of the characters that are base64 digits; others are skipped.
Sextets(cs) ==
  LET digits == SelectSeq(BeforePadding(cs), IsB64)
  IN [i \in 1..Len(digits) |-> B64Val(digits[i])]

\* Byte j (from 0) of the bit string made of the 6-bit groups sx.
ByteAt(sx, j) ==
  LET q == (8 * j) \div 6
      r == (8 * j) % 6
      hi == sx[q + 1]
      lo == sx[q + 2]
  IN CASE r = 0 -> (hi * 4) + (lo \div 16)
       [] r = 2 -> ((hi % 16) * 16) + (lo \div 4)
       [] OTHER -> ((hi % 4) * 64) + lo

\* Buffer.from(cs, "base64")
Base64Decode(cs) ==
  LET sx == Sextets(cs)
  IN [j \in 1..((Len(sx) * 6) \div 8) |-> ByteAt(sx, j - 1)]

RECURSIVE ToHex(_)
\* buffer.toString("hex")
ToHex(bytes) ==
  IF bytes = <<>> THEN <<>>
  ELSE <<HexDigits[(Head(bytes) \div 16) + 1], HexDigits[(Head(bytes) % 16) + 1]>>
         \o ToHex(Tail(bytes))

Base64ToHex(cs) == ToHex(Base64Decode(cs))

\* if (span?.traceId) span.traceId = Buffer.from(span.traceId, "base64").toString("hex")
\* A decoder that leaves alone what is hex already.
DecodeIdUnlessHex(id) ==
  IF id = Undefined \/ id = <<>> THEN id
  ELSE IF \A i \in 1..Len(id) : \E h \in 1..Len(HexDigits) : HexDigits[h] = id[i]
  THEN id
  ELSE Base64ToHex(id)

DecodeId(id) == IF id = Undefined \/ id = <<>> THEN id ELSE Base64ToHex(id)

(***************************************************************************)
(* Wire values (IAnyValue): kind names the one populated field, v holds a  *)
(* scalar field's content and values the members of an array or a key /    *)
(* value list. AnyUndefined is an absent value, AnyEmpty the object {}.    *)
(***************************************************************************)
AnyUndefined == [kind |-> "undefined", v |-> Undef, values |-> <<>>]

AnyEmpty == [kind |-> "none", v |-> Undef, values |-> <<>>]

StringValue(x) == [kind |-> "stringValue", v |-> Str(x), values |-> <<>>]

BoolValue(x) == [kind |-> "boolValue", v |-> Bool(x), values |-> <<>>]

IntValue(x) == [kind |-> "intValue", v |-> x, values |-> <<>>]

DoubleValue(x) == [kind |-> "doubleValue", v |-> x, values |-> <<>>]

ArrayValue(xs) == [kind |-> "arrayValue", v |-> Undef, values |-> xs]

KvlistValue(kvs) == [kind |-> "kvlistValue", v |-> Undef, values |-> kvs]

\* An attribute: key is the dotted key as its segments and "." separators.
KeyValue(key, val) == [key |-> key, value |-> val]

MessageObj(role, content) ==
  Obj(<<KV("role", Str(role)), KV("content", Str(content))>>)

\* JSON.parse on the texts the model's attributes carry. Any other text is
\* no JSON (JSON.parse throws on it).
JsonTexts ==
  << [text |-> "true", value |-> Bool(TRUE)],
     [text |-> "false", value |-> Bool(FALSE)],
     [text |-> "null", value |-> Null],
     [text |-> "0", value |-> Num(0)],
     [text |-> "5", value |-> Num(5)],
     [text |-> "[1,2]", value |-> ArrOf(<<Num(1), Num(2)>>)],
     [text |-> "{}", value |-> Obj(<<>>)],
     [text |-> "{\"q\":\"hi\"}", value |-> Obj(<<KV("q", Str("hi"))>>)],
     [text |-> "{\"user_id\":\"u2\",\"foo\":\"bar\"}",
      value |-> Obj(<<KV("user_id", Str("u2")), KV("foo", Str("bar"))>>)],
     [text |-> "{\"q\":\"hi\",\"metadata\":{\"user_id\":\"u3\",\"foo\":\"baz\"}}",
      value |-> Obj(<<KV("q", Str("hi")),
                      KV("metadata", Obj(<<KV("user_id", Str("u3")),
                                           KV("foo", Str("baz"))>>))>>)],
     [text |-> "{\"q\":\"hi\",\"metadata\":{\"user_id\":7}}",
      value |-> Obj(<<KV("q", Str("hi")),
                      KV("metadata", Obj(<<KV("user_id", Num(7))>>))>>)],
     [text |-> "{\"metadata\":{\"thread_id\":\"t1\",\"labels\":[\"a\"],\"n\":1}}",
      value |-> Obj(<<KV("metadata",
                         Obj(<<KV("thread_id", Str("t1")),
                               KV("labels", ArrOf(<<Str("a")>>)),
                               KV("n", Num(1))>>))>>)],
     [text |-> "{\"temperature\":1}",
      value |-> Obj(<<KV("temperature", Num(1))>>)],
     [text |-> "[{\"role\":\"user\",\"content\":\"hi\"}]",
      value |-> ArrOf(<<MessageObj("user", "hi")>>)],
     [text |-> "[{\"role\":\"assistant\",\"content\":\"yo\"}]",
      value |-> ArrOf(<<MessageObj("assistant", "yo")>>)],
     [text |-> "[{\"message\":{\"role\":\"user\",\"content\":\"hi\"}}]",
      value |-> ArrOf(<<Obj(<<KV("message", MessageObj("user", "hi"))>>)>>)],
     [text |-> "[{\"message\":\"oops\"}]",
      value |-> ArrOf(<<Obj(<<KV("message", Str("oops"))>>)>>)] >>

\* Whether a table of texts has the text, and the value it gives it.
InTable(table, text) == \E i \in 1..Len(table) : table[i].text = text

TableValue(table, text) ==
  table[CHOOSE i \in 1..Len(table) : table[i].text = text].value

IsJson(text) == InTable(JsonTexts, text)

JsonParse(text) == TableValue(JsonTexts, text)

\* try { return JSON.parse(stringValue) } catch { return stringValue }
JsonOrText(table, stringValue) ==
  IF InTable(table, stringValue.s) THEN TableValue(table, stringValue.s)
  ELSE stringValue

RECURSIVE Pow2(_)
Pow2(e) == IF e = 0 THEN 1 ELSE 2 * Pow2(e - 1)

IsLongBits(value) ==
  value.t = "obj" /\ HasKey(value, "high") /\ HasKey(value, "low")

(***************************************************************************)
(* BigInt arithmetic, on magnitudes held as digits in base 2^16 from the   *)
(* least one, with no zero digit last.                                     *)
(***************************************************************************)
RECURSIVE Limbs(_)
\* The digits of a natural number.
Limbs(x) == IF x = 0 THEN <<>> ELSE <<x % 65536>> \o Limbs(x \div 65536)

RECURSIVE Trim(_)
Trim(a) ==
  IF a # <<>> /\ a[Len(a)] = 0 THEN Trim(SubSeq(a, 1, Len(a) - 1)) ELSE a

LimbAt(a, i) == IF i <= Len(a) THEN a[i] ELSE 0

\* The first k digits: the magnitude modulo 2^(16 k).
Low(a, k) == Trim(SubSeq(a, 1, IF k < Len(a) THEN k ELSE Len(a)))

RECURSIVE AddFrom(_, _, _, _)
\* The digits of a + b from digit i on, with a carry.
AddFrom(a, b, i, carry) ==
  IF i > Len(a) /\ i > Len(b) THEN (IF carry = 0 THEN <<>> ELSE <<carry>>)
  ELSE <<(LimbAt(a, i) + LimbAt(b, i) + carry) % 65536>>
         \o AddFrom(a, b, i + 1, (LimbAt(a, i) + LimbAt(b, i) + carry) \div 65536)

AddMag(a, b) == AddFrom(a, b, 1, 0)

RECURSIVE SubFrom(_, _, _, _)
\* The digits of a - b from digit i on, with a borrow, for a >= b.
SubFrom(a, b, i, borrow) ==
  IF i > Len(a) THEN <<>>
  ELSE <<(65536 + LimbAt(a, i) - LimbAt(b, i) - borrow) % 65536>>
         \o SubFrom(a, b, i + 1,
                    IF LimbAt(a, i) - LimbAt(b, i) - borrow < 0 THEN 1 ELSE 0)

SubMag(a, b) == Trim(SubFrom(a, b, 1, 0))

\* A BigInt: a sign and a magnitude.
Big(neg, mag) == [neg |-> neg /\ mag # <<>>, mag |-> mag]

\* BigInt(number)
BigInt(v) ==
  IF v.w # <<>> THEN Big(v.b, v.w)
  ELSE Big(v.n < 0, Limbs(IF v.n < 0 THEN -v.n ELSE v.n))

RECURSIVE BitLength(_)
BitLength(x) == IF x = 0 THEN 0 ELSE 1 + BitLength(x \div 2)

\* The magnitude with its e lowest bits rounded away, half to even (e < 16).
RoundOff(mag, e) ==
  AddMag([mag EXCEPT ![1] = mag[1] - (mag[1] % Pow2(e))],
         IF \/ (mag[1] % Pow2(e)) * 2 > Pow2(e)
            \/ /\ (mag[1] % Pow2(e)) * 2 = Pow2(e)
               /\ (mag[1] \div Pow2(e)) % 2 = 1
         THEN <<Pow2(e)>> ELSE <<>>)

\* The nearest magnitude of 53 significant bits, the precision of a Number.
\* A 64-bit word has four digits, of which up to 11 bits are rounded away.
Significant(mag) ==
  IF Len(mag) = 4 /\ BitLength(mag[4]) > 5
  THEN RoundOff(mag, BitLength(mag[4]) - 5)
  ELSE mag

\* The number value of a magnitude that a Number holds.
NumberOf(neg, mag) ==
  IF Len(mag) <= 1 \/ (Len(mag) = 2 /\ mag[2] < 32768)
  THEN Num((IF neg THEN -1 ELSE 1) * (LimbAt(mag, 1) + (65536 * LimbAt(mag, 2))))
  ELSE Wide(neg, mag)

\* Number(bigint)
Number(x) == NumberOf(x.neg, Significant(x.mag))

\* BigInt(high) << 32n
ShiftLeft32(x) == Big(x.neg, IF x.mag = <<>> THEN <<>> ELSE <<0, 0>> \o x.mag)

\* BigInt(low) & 0xffffffffn: the low 32 bits of the two's complement, a
\* magnitude.
And32(x) ==
  IF x.neg /\ Low(x.mag, 2) # <<>> THEN SubMag(<<0, 0, 1>>, Low(x.mag, 2))
  ELSE Low(x.mag, 2)

\* x | y, for x a multiple of 2^32 and y a magnitude below 2^32: their sum.
Or32(x, y) ==
  IF x.neg THEN Big(TRUE, SubMag(x.mag, y)) ELSE Big(FALSE, AddMag(x.mag, y))

Bit63(mag) == Len(mag) >= 4 /\ mag[4] >= 32768

\* result & signBit, as the condition of the if: bit 63 of the two's
\* complement.
SignBit(x) == IF x.neg THEN ~Bit63(SubMag(x.mag, <<1>>)) ELSE Bit63(x.mag)

\* ~result & ((1n << 64n) - 1n), a magnitude.
NotAnd64(x) ==
  IF x.neg THEN Low(SubMag(x.mag, <<1>>), 4)
  ELSE SubMag(<<65535, 65535, 65535, 65535>>, Low(x.mag, 4))

\* (BigInt(high) << 32n) | (BigInt(low) & 0xffffffffn)
LongBitsWord(high, low) == Or32(ShiftLeft32(BigInt(high)), And32(BigInt(low)))

\* The number of the 64-bit word result, read as unsigned or as signed.
LongBitsNumber(result, unsigned) ==
  IF unsigned THEN Number(result)
  ELSE IF SignBit(result)
       THEN Number(Big(TRUE, AddMag(NotAnd64(result), <<1>>)))
       ELSE Number(result)

maybeConvertLongBits(value) ==
  IF IsLongBits(value)
  THEN LongBitsNumber(LongBitsWord(Prop(value, "high"), Prop(value, "low")),
                      Truthy(Prop(value, "unsigned")))
  ELSE value

RECURSIVE iAnyValueToValue(_)
iAnyValueToValue(value) ==
  CASE value.kind = "undefined" -> Undef
    [] value.kind = "stringValue" /\ Truthy(value.v) ->
         IF value.v.s = "None" THEN Null ELSE JsonOrText(JsonTexts, value.v)
    [] value.kind = "arrayValue" ->
         ArrOf([i \in 1..Len(value.values) |-> iAnyValueToValue(value.values[i])])
    [] value.kind = "boolValue" /\ Truthy(value.v) -> value.v
    [] value.kind \in {"intValue", "doubleValue"} /\ Truthy(value.v) ->
         maybeConvertLongBits(value.v)
    [] value.kind = "kvlistValue" ->
         SpreadKids(Obj(<<>>),
           [i \in 1..Len(value.values) |->
              KV(value.values[i].key, iAnyValueToValue(value.values[i].value))])
    [] OTHER -> Undef

(***************************************************************************)
(* The Attribute Path Expander.                                            *)
(***************************************************************************)
RECURSIVE Split(_)
\* key.split("."), for a key given as segments and "." separators.
Split(key) ==
  IF key = <<>> THEN <<"">>
  ELSE IF Head(key) = "." THEN <<"">> \o Split(Tail(key))
  ELSE IF Len(key) = 1 THEN <<Head(key)>>
  ELSE <<Head(key)>> \o Split(Tail(Tail(key)))

Threw == [threw |-> TRUE, value |-> Undef]

Ok(v) == [threw |-> FALSE, value |-> v]

\* current[k] ?? [] or {}: the container the next key goes into.
ChildOf(old, nextKey) ==
  IF old.t \in {"undefined", "null"}
  THEN IF IsDigits(nextKey) THEN Arr(<<>>) ELSE Obj(<<>>)
  ELSE old

\* current with the container under key as the rest of the keys left it.
SetChild(current, key, r) ==
  IF r.threw THEN Threw ELSE Ok(SetProp(current, key, r.value))

RECURSIVE InsertKey(_, _, _)
\* The keys?.forEach of one attribute, from the container current on. An
\* assignment to a property of a primitive throws a TypeError (module code
\* is strict).
InsertKey(current, keys, value) ==
  IF ~IsObject(current) THEN Threw
  ELSE IF Len(keys) = 1 THEN Ok(SetProp(current, Head(keys), value))
  ELSE SetChild(current, Head(keys),
         InsertKey(ChildOf(Prop(current, Head(keys)), keys[2]), Tail(keys), value))

\* One attribute put into the tree result.
InsertAttribute(result, kv) ==
  IF kv.key = Undefined THEN Ok(result)
  ELSE InsertKey(result, Split(kv.key), iAnyValueToValue(kv.value))

RECURSIVE InsertAll(_, _)
\* attributes?.forEach(...) on the tree r.value, up to the first that throws.
InsertAll(r, attributes) ==
  IF r.threw \/ attributes = <<>> THEN r
  ELSE InsertAll(InsertAttribute(r.value, Head(attributes)), Tail(attributes))

\* Object.values(v), as an array.
ObjectValues(v) == ArrOf([i \in 1..Len(v.kids) |-> v.kids[i].v])

\* The converted child c, as an array when all its keys are indexes.
ArrayIfIndexed(c) ==
  IF \A j \in 1..Len(c.kids) : IsDigits(c.kids[j].k) THEN ObjectValues(c) ELSE c

RECURSIVE convertToArrays(_)
convertToArrays(obj) ==
  [obj EXCEPT !.kids =
    [i \in 1..Len(obj.kids) |->
      IF IsObject(obj.kids[i].v)
      THEN KV(obj.kids[i].k, ArrayIfIndexed(convertToArrays(obj.kids[i].v)))
      ELSE obj.kids[i]]]

\* return convertToArrays(result), when no assignment threw.
ConvertedTree(r) == IF r.threw THEN Threw ELSE Ok(convertToArrays(r.value))

keyValueToObject(attributes) == ConvertedTree(InsertAll(Ok(Obj(<<>>)), attributes))

isEmpty(value) ==
  \/ value.t \in {"null", "undefined"}
  \/ IsObject(value) /\ value.kids = <<>>

RECURSIVE removeEmptyKeys(_)
removeEmptyKeys(obj) ==
  CASE ~Truthy(obj) -> obj
    [] obj.t = "str" -> obj
    [] obj.t = "arr" ->
         LET elems == SelectSeq(obj.kids, LAMBDA e : IsDigits(e.k))
             mapped == [i \in 1..Len(elems) |-> removeEmptyKeys(elems[i].v)]
         IN ArrOf(SelectSeq(mapped, LAMBDA e : ~isEmpty(e)))
    [] obj.t = "obj" ->
         LET cleaned == [i \in 1..Len(obj.kids) |->
                          KV(obj.kids[i].k,
                             IF IsObject(obj.kids[i].v)
                             THEN removeEmptyKeys(obj.kids[i].v)
                             ELSE obj.kids[i].v)]
         IN Obj(SelectSeq(cleaned, LAMBDA e : ~isEmpty(e.v)))
    [] OTHER -> Obj(<<>>)

(***************************************************************************)
(* The schemas of ./types.generated, which the transform imports.          *)
(***************************************************************************)
allowedSpanTypes ==
  {"span", "llm", "chain", "tool", "agent", "rag", "guardrail", "workflow",
   "component", "module", "server", "client", "producer", "consumer",
   "task", "unknown"}

ReservedKeys == {"thread_id", "user_id", "customer_id", "labels"}

ChatRoles == {"system", "user", "assistant", "function", "tool", "unknown"}

ChatMessageKeys ==
  {"role", "content", "function_call", "tool_calls", "tool_call_id", "name"}

ValidChatMessage(msg) ==
  /\ msg.t = "obj"
  /\ Prop(msg, "role").t = "undefined"
       \/ (Prop(msg, "role").t = "str" /\ Prop(msg, "role").s \in ChatRoles)
  /\ Prop(msg, "content").t \in {"undefined", "null", "str"}
  /\ Prop(msg, "name").t \in {"undefined", "null", "str"}

\* typedValueChatMessagesSchema.safeParse({type: "chat_messages", value}).success
ChatMessagesValid(value) ==
  /\ value.t = "arr"
  /\ \A i \in 1..Len(value.kids) : ValidChatMessage(value.kids[i].v)

\* ... .data: the messages, with the keys the schema does not know stripped.
ChatMessagesData(value) ==
  Obj(<<KV("type", Str("chat_messages")),
        KV("value",
           ArrOf([i \in 1..Len(value.kids) |->
             Obj(SelectSeq(value.kids[i].v.kids,
                           LAMBDA e : e.k \in ChatMessageKeys))]))>>)

ValidReservedField(key, val) ==
  IF key = "labels"
  THEN \/ val.t \in {"undefined", "null"}
       \/ val.t = "arr" /\ \A i \in 1..Len(val.kids) : val.kids[i].v.t = "str"
  ELSE val.t \in {"undefined", "null", "str"}

\* Whether reservedTraceMetadataSchema.parse(metadata) throws.
ReservedParseThrows(metadata) ==
  \/ metadata.t # "obj"
  \/ \E key \in ReservedKeys : ~ValidReservedField(key, Prop(metadata, key))

\* reservedTraceMetadataSchema.parse(metadata): the reserved keys only.
ReservedParse(metadata) ==
  Obj(SelectSeq(metadata.kids, LAMBDA e : e.k \in ReservedKeys))

\* customMetadataSchema.parse(remaining): a record of any values.
CustomParse(remaining) == remaining

(***************************************************************************)
(* Text operations, on the texts the model's inputs carry.                 *)
(***************************************************************************)
LowerCaseTexts ==
  << [text |-> "LLM", lower |-> "llm"],
     [text |-> "CHAIN", lower |-> "chain"],
     [text |-> "Tool", lower |-> "tool"],
     [text |-> "RETRIEVER", lower |-> "retriever"] >>

\* text.toLowerCase(); a text that is not listed has no upper-case letter.
toLowerCase(text) ==
  IF \E i \in 1..Len(LowerCaseTexts) : LowerCaseTexts[i].text = text
  THEN LowerCaseTexts[CHOOSE i \in 1..Len(LowerCaseTexts) :
                        LowerCaseTexts[i].text = text].lower
  ELSE text

\* text.split("\n"); a text that is not listed has no line break.
SplitLines(text) ==
  IF text = "at f\nat g" THEN <<Str("at f"), Str("at g")>> ELSE <<Str(text)>>

\* `${type}: ${message}`
TypeAndMessage(type, message) ==
  IF type = Str("ValueError") /\ message = Str("bad")
  THEN Str("ValueError: bad")
  ELSE IF type = Str("KeyError") /\ message = Str("gone")
  THEN Str("KeyError: gone")
  ELSE Str("<type>: <message>")

\* parseInt(text, 10), which is NaN on a text with no leading digits.
ParseIntTexts ==
  << [text |-> "0", value |-> 0],
     [text |-> "499999", value |-> 499999],
     [text |-> "1500000", value |-> 1500000],
     [text |-> "2000000", value |-> 2000000] >>

IsParsableInt(text) ==
  \E i \in 1..Len(ParseIntTexts) : ParseIntTexts[i].text = text

ParseInt(text) ==
  ParseIntTexts[CHOOSE i \in 1..Len(ParseIntTexts) :
                  ParseIntTexts[i].text = text].value

(***************************************************************************)
(* The Timestamp Normalizer.                                               *)
(***************************************************************************)
\* Math.round(unixNano / 1000 / 1000)
RoundMillis(unixNano) == (unixNano + 500000) \div 1000000

\* The bytes of a magnitude, from the least one.
Bytes(mag) ==
  [i \in 1..(2 * Len(mag)) |->
     IF i % 2 = 1 THEN mag[(i + 1) \div 2] % 256 ELSE mag[i \div 2] \div 256]

RECURSIVE DivBytes(_, _, _, _)
\* The bytes of the quotient by d of the number that rem and the bytes up to
\* the i-th make, by long division.
DivBytes(bytes, i, d, rem) ==
  IF i = 0 THEN <<>>
  ELSE DivBytes(bytes, i - 1, d, ((rem * 256) + bytes[i]) % d)
         \o <<((rem * 256) + bytes[i]) \div d>>

DivMag(mag, d) ==
  Trim([i \in 1..Len(mag) |->
          DivBytes(Bytes(mag), 2 * Len(mag), d, 0)[(2 * i) - 1]
            + (256 * DivBytes(Bytes(mag), 2 * Len(mag), d, 0)[2 * i])])

\* Math.round(unixNano / 1000 / 1000) of a number beyond TLC's integers, in
\* whole numbers: the nearest millisecond, a half rounded up.
RoundMillisWide(x) ==
  NumberOf(x.neg, DivMag(AddMag(x.mag, Limbs(IF x.neg THEN 499999 ELSE 500000)),
                         1000000))

\* unixNano ? Math.round(unixNano / 1000 / 1000) : undefined
MillisOf(unixNano) ==
  IF unixNano.t # "num" \/ ~Truthy(unixNano) THEN Undef
  ELSE IF unixNano.w = <<>> /\ unixNano.n < 2000000000
  THEN Num(RoundMillis(unixNano.n))
  ELSE RoundMillisWide(BigInt(unixNano))

\* The milliseconds as a number, or undefined.
parseTimestamp(timestamp) ==
  MillisOf(CASE timestamp.t = "num" -> timestamp
             [] timestamp.t = "str" ->
                  IF IsParsableInt(timestamp.s) THEN Num(ParseInt(timestamp.s))
                  ELSE Undef
             [] OTHER -> maybeConvertLongBits(timestamp))

(***************************************************************************)
(* The Semantic Mapper: addOpenTelemetrySpanAsSpan, step by step. A step   *)
(* takes and returns the locals of the function: am is attributesMap,      *)
(* reserved and custom are the trace's metadata maps, and threw says that  *)
(* the step raised an error, which ends the call.                          *)
(***************************************************************************)
\* The text or json typed value of a free-form attribute.
TextOrJson(value) ==
  Obj(<<KV("type", Str(IF value.t = "str" THEN "text" ELSE "json")),
        KV("value", value)>>)

IsFirstTokenEvent(event) ==
  event.name \in {"First Token Stream Event", "llm.content.completion.chunk"}

\* A first token time taken from the last matching event.
FirstTokenAtLast(events) ==
  IF \E i \in 1..Len(events) : IsFirstTokenEvent(events[i])
  THEN parseTimestamp(
         events[CHOOSE i \in 1..Len(events) :
                  /\ IsFirstTokenEvent(events[i])
                  /\ \A j \in (i + 1)..Len(events) : ~IsFirstTokenEvent(events[j])].timeUnixNano)
  ELSE Null

\* First token at
FirstTokenAt(events) ==
  IF \E i \in 1..Len(events) : IsFirstTokenEvent(events[i])
  THEN parseTimestamp(
         events[CHOOSE i \in 1..Len(events) :
                  /\ IsFirstTokenEvent(events[i])
                  /\ \A j \in 1..(i - 1) : ~IsFirstTokenEvent(events[j])].timeUnixNano)
  ELSE Null

\* Type, from the span kind enum.
TypeFromKind(kind) ==
  CASE kind = Str("SPAN_KIND_CONSUMER") \/ kind = Num(5) -> "consumer"
    [] kind = Str("SPAN_KIND_PRODUCER") \/ kind = Num(4) -> "producer"
    [] kind = Str("SPAN_KIND_CLIENT") \/ kind = Num(3) -> "client"
    [] kind = Str("SPAN_KIND_SERVER") \/ kind = Num(2) -> "server"
    [] OTHER -> "span"

Raise(m) == [m EXCEPT !.threw = TRUE]

\* A span.kind rule that yields to a type set before it.
SpanKindRuleIfUnset(m, vendor) ==
  LET kind == GetPath(m.am, <<vendor, "span", "kind">>)
  IN IF ~Truthy(kind) THEN m
     ELSE IF kind.t # "str" THEN Raise(m)
     ELSE IF toLowerCase(kind.s) \in allowedSpanTypes /\ m.type = "span"
     THEN [m EXCEPT !.type = toLowerCase(kind.s),
                    !.am = DeletePath(m.am, <<vendor, "span", "kind">>)]
     ELSE m

\* Type, from the span.kind attribute of a vendor. kind.toLowerCase() raises
\* a TypeError when the attribute is there and is no string.
SpanKindRule(m, vendor) ==
  LET kind == GetPath(m.am, <<vendor, "span", "kind">>)
  IN IF ~Truthy(kind) THEN m
     ELSE IF kind.t # "str" THEN Raise(m)
     ELSE IF toLowerCase(kind.s) \in allowedSpanTypes
     THEN [m EXCEPT !.type = toLowerCase(kind.s),
                    !.am = DeletePath(m.am, <<vendor, "span", "kind">>)]
     ELSE m

\* A request type that yields to a type set before it.
RequestTypeRuleIfUnset(m) ==
  IF /\ GetPath(m.am, <<"llm", "request", "type">>) \in {Str("chat"), Str("completion")}
     /\ m.type = "span"
  THEN [m EXCEPT !.type = "llm",
                 !.am = DeletePath(m.am, <<"llm", "request", "type">>)]
  ELSE m

\* Type, from llm.request.type.
RequestTypeRule(m) ==
  IF GetPath(m.am, <<"llm", "request", "type">>) \in {Str("chat"), Str("completion")}
  THEN [m EXCEPT !.type = "llm",
                 !.am = DeletePath(m.am, <<"llm", "request", "type">>)]
  ELSE m

\* A model rule that yields to a model set before it.
ModelRuleIfUnset(m, path) ==
  IF Truthy(GetPath(m.am, path))
  THEN [m EXCEPT !.model = IF m.model = Undef THEN GetPath(m.am, path) ELSE m.model,
                 !.am = DeletePath(m.am, path)]
  ELSE m

\* Model, from one attribute path.
ModelRule(m, path) ==
  IF Truthy(GetPath(m.am, path))
  THEN [m EXCEPT !.model = GetPath(m.am, path), !.am = DeletePath(m.am, path)]
  ELSE m

\* messages.map((message) => message.message)
MessageOf(messages) ==
  ArrOf([i \in 1..Len(messages.kids) |-> Prop(messages.kids[i].v, "message")])

\* Whether that map raises a TypeError: a message that is null or undefined.
MessageOfThrows(messages) ==
  \E i \in 1..Len(messages.kids) : messages.kids[i].v.t \in {"null", "undefined"}

\* The first strategy of Input and Output: the messages under llm.*_messages.
\* It does not look at what field holds (nothing, when it runs).
MessagesRule(m, field, path) ==
  LET source == GetPath(m.am, path)
  IN IF source.t # "arr" THEN m
     ELSE IF MessageOfThrows(source) THEN Raise(m)
     ELSE IF ChatMessagesValid(MessageOf(source))
     THEN [m EXCEPT ![field] = ChatMessagesData(MessageOf(source)),
                    !.am = DeletePath(m.am, path)]
     ELSE m

\* A second strategy that does not look at what field holds.
ChatRuleAlways(m, field, path) ==
  LET source == GetPath(m.am, path)
  IN IF source.t = "arr" /\ ChatMessagesValid(source)
     THEN [m EXCEPT ![field] = ChatMessagesData(source),
                    !.am = DeletePath(m.am, path)]
     ELSE m

\* The second strategy: chat messages under gen_ai.prompt / gen_ai.completion.
ChatRule(m, field, path) ==
  LET source == GetPath(m.am, path)
  IN IF ~Truthy(m[field]) /\ source.t = "arr" /\ ChatMessagesValid(source)
     THEN [m EXCEPT ![field] = ChatMessagesData(source),
                    !.am = DeletePath(m.am, path)]
     ELSE m

\* The langchain metadata inside traceloop.entity.input.
HasNestedMetadata(json) == IsObject(json) /\ HasKey(json, "metadata")

NonNullKids(obj) ==
  Obj(SelectSeq(obj.kids, LAMBDA e : e.v.t \notin {"null", "undefined"}))

\* A nested metadata that goes to customMetadata whole and stays in the input.
NestedMetadataRuleCustomOnly(m, json, metadata) ==
  IF ReservedParseThrows(metadata) THEN Raise(m)
  ELSE [m EXCEPT
         !.input = TextOrJson(json),
         !.custom = Spread(m.custom, CustomParse(metadata)),
         !.am = DeletePath(m.am, <<"traceloop", "entity", "input">>)]

\* The input and the metadata of a traceloop.entity.input that holds a
\* metadata. reservedTraceMetadataSchema.parse raises on a metadata the
\* schema refuses.
NestedMetadataRule(m, json, metadata) ==
  IF ReservedParseThrows(metadata) THEN Raise(m)
  ELSE [m EXCEPT
         !.input = TextOrJson(DeleteProp(json, "metadata")),
         !.reserved = Spread(m.reserved, NonNullKids(ReservedParse(metadata))),
         !.custom = Spread(m.custom,
                      CustomParse(Obj(SelectSeq(metadata.kids,
                                    LAMBDA e : e.k \notin ReservedKeys)))),
         !.am = DeletePath(m.am, <<"traceloop", "entity", "input">>)]

EntityInputOf(m, json) ==
  IF Truthy(m.input) \/ ~Truthy(json) THEN m
  ELSE IF ~HasNestedMetadata(json)
  THEN [m EXCEPT !.input = TextOrJson(json),
                 !.am = DeletePath(m.am, <<"traceloop", "entity", "input">>)]
  ELSE NestedMetadataRule(m, json, Prop(json, "metadata"))

\* The third strategy of Input.
EntityInputRule(m) ==
  EntityInputOf(m, GetPath(m.am, <<"traceloop", "entity", "input">>))

\* The last strategy of Input and Output: input.value / output.value.
ValueRule(m, field) ==
  IF ~Truthy(m[field]) /\ Truthy(GetPath(m.am, <<field, "value">>))
  THEN [m EXCEPT ![field] = TextOrJson(GetPath(m.am, <<field, "value">>))]
  ELSE m

\* delete attributesMap.input, delete attributesMap.output
DeleteRule(m, field) == [m EXCEPT !.am = DeleteProp(m.am, field)]

\* A free-form strategy of Output, which deletes its source.
FreeFormRule(m, field, path) ==
  IF ~Truthy(m[field]) /\ Truthy(GetPath(m.am, path))
  THEN [m EXCEPT ![field] = TextOrJson(GetPath(m.am, path)),
                 !.am = DeletePath(m.am, path)]
  ELSE m

\* A metadata rule that leaves its source in the tree.
ReservedRuleKeep(m, path, key, arrayOnly) ==
  LET value == GetPath(m.am, path)
  IN IF Truthy(value) /\ (arrayOnly => value.t = "arr")
     THEN [m EXCEPT !.reserved = SetProp(m.reserved, key, value)]
     ELSE m

\* Metadata, into the trace's reserved map.
ReservedRule(m, path, key, arrayOnly) ==
  LET value == GetPath(m.am, path)
  IN IF Truthy(value) /\ (arrayOnly => value.t = "arr")
     THEN [m EXCEPT !.reserved = SetProp(m.reserved, key, value),
                    !.am = DeletePath(m.am, path)]
     ELSE m

\* A metadata map that takes the place of the trace's custom metadata.
MetadataRuleReplace(m) ==
  IF Prop(m.am, "metadata").t = "obj"
  THEN [m EXCEPT !.custom = Prop(m.am, "metadata"),
                 !.am = DeleteProp(m.am, "metadata")]
  ELSE m

\* Metadata, from the metadata map attribute.
MetadataRule(m) ==
  IF Prop(m.am, "metadata").t = "obj"
  THEN [m EXCEPT !.custom = Spread(m.custom, Prop(m.am, "metadata")),
                 !.am = DeleteProp(m.am, "metadata")]
  ELSE m

\* Params, from llm.invocation_parameters. Spreading a value that is no
\* object or array adds nothing (the model's inputs spread no string).
InvocationParametersRule(m) ==
  LET inv == GetPath(m.am, <<"llm", "invocation_parameters">>)
  IN IF Truthy(inv)
     THEN [m EXCEPT !.params = Spread(m.params, inv),
                    !.am = DeletePath(m.am, <<"llm", "invocation_parameters">>)]
     ELSE m

\* Params, from llm.is_streaming.
StreamingRule(m) ==
  LET streaming == GetPath(m.am, <<"llm", "is_streaming">>)
  IN IF Truthy(streaming)
     THEN [m EXCEPT
            !.params = SetProp(m.params, "stream",
                         Bool(streaming \notin {Str("false"), Str("False")})),
            !.am = DeletePath(m.am, <<"llm", "is_streaming">>)]
     ELSE m

\* ...(otelScope ? { scope: otelScope } : {})
WithScope(params, otelScope) ==
  IF Truthy(otelScope) THEN SetProp(params, "scope", otelScope) ELSE params

\* Params, from what is left of the tree and from the scope.
LeftoverRule(m, otelScope) ==
  [m EXCEPT !.params = WithScope(Spread(m.params, removeEmptyKeys(m.am)), otelScope)]

\* The steps from Type to Params, in the order of the source.
LastStep == 24

Step(m, i, otelScope) ==
  CASE i = 1 -> SpanKindRule(m, "openinference")
    [] i = 2 -> SpanKindRule(m, "traceloop")
    [] i = 3 -> RequestTypeRule(m)
    [] i = 4 -> ModelRule(m, <<"llm", "model_name">>)
    [] i = 5 -> ModelRule(m, <<"gen_ai", "request", "model">>)
    [] i = 6 -> ModelRule(m, <<"gen_ai", "response", "model">>)
    [] i = 7 -> MessagesRule(m, "input", <<"llm", "input_messages">>)
    [] i = 8 -> ChatRule(m, "input", <<"gen_ai", "prompt">>)
    [] i = 9 -> EntityInputRule(m)
    [] i = 10 -> ValueRule(m, "input")
    [] i = 11 -> DeleteRule(m, "input")
    [] i = 12 -> MessagesRule(m, "output", <<"llm", "output_messages">>)
    [] i = 13 -> ChatRule(m, "output", <<"gen_ai", "completion">>)
    [] i = 14 -> FreeFormRule(m, "output", <<"llm", "output_messages">>)
    [] i = 15 -> FreeFormRule(m, "output", <<"traceloop", "entity", "output">>)
    [] i = 16 -> ValueRule(m, "output")
    [] i = 17 -> DeleteRule(m, "output")
    [] i = 18 -> ReservedRule(m, <<"user", "id">>, "user_id", FALSE)
    [] i = 19 -> ReservedRule(m, <<"session", "id">>, "thread_id", FALSE)
    [] i = 20 -> ReservedRule(m, <<"tag", "tags">>, "labels", TRUE)
    [] i = 21 -> MetadataRule(m)
    [] i = 22 -> InvocationParametersRule(m)
    [] i = 23 -> StreamingRule(m)
    [] OTHER -> LeftoverRule(m, otelScope)

RECURSIVE RunSteps(_, _, _)
\* The steps from step i on, up to the first that raises.
RunSteps(m, i, otelScope) ==
  IF m.threw \/ i > LastStep THEN m
  ELSE RunSteps(Step(m, i, otelScope), i + 1, otelScope)

\* otelSpan.status?.message ?? "Exception"
StatusMessage(status) ==
  IF status.message.t \in {"null", "undefined"} THEN Str("Exception")
  ELSE status.message

\* An error status test that knows the symbolic code only.
IsErrorStatusSymbolic(status) == status.code = Str("STATUS_CODE_ERROR")

IsErrorStatus(status) ==
  status.code = Str("STATUS_CODE_ERROR") \/ status.code = Num(2)

ErrorRecord(message, stacktrace) ==
  Obj(<<KV("has_error", Bool(TRUE)), KV("message", message),
        KV("stacktrace", ArrOf(stacktrace))>>)

\* An error record from a status of any code.
StatusErrorOfAny(status) == ErrorRecord(StatusMessage(status), <<>>)

\* Exception, from the status.
StatusError(status) ==
  IF IsErrorStatus(status) THEN ErrorRecord(StatusMessage(status), <<>>)
  ELSE Undef

\* The error record of an exception event, or threw: its stacktrace is there
\* and has no split method.
ExceptionError(type, message, stacktrace, status) ==
  IF Truthy(stacktrace) /\ stacktrace.t # "str" THEN Threw
  ELSE Ok(ErrorRecord(
         IF Truthy(message) /\ Truthy(type) THEN TypeAndMessage(type, message)
         ELSE StatusMessage(status),
         IF Truthy(stacktrace) THEN SplitLines(stacktrace.s) ELSE <<>>))

\* The same from the expanded attributes r of the event, or threw: they do
\* not expand.
ExceptionAttributesError(r, status) ==
  IF r.threw THEN Threw
  ELSE ExceptionError(GetPath(r.value, <<"exception", "type">>),
                      GetPath(r.value, <<"exception", "message">>),
                      GetPath(r.value, <<"exception", "stacktrace">>), status)

ExceptionEventError(event, status) ==
  ExceptionAttributesError(keyValueToObject(event.attributes), status)

\* An error taken from the first exception event only.
ExceptionStepFirst(r, events, status) ==
  IF \E i \in 1..Len(events) : events[i].name = "exception"
  THEN ExceptionEventError(
         events[CHOOSE i \in 1..Len(events) :
                  /\ events[i].name = "exception"
                  /\ \A j \in 1..(i - 1) : events[j].name # "exception"],
         status)
  ELSE r

RECURSIVE ExceptionStep(_, _, _)
\* Exception, from the events still to visit; r.value is the error so far.
ExceptionStep(r, events, status) ==
  IF r.threw \/ events = <<>> THEN r
  ELSE ExceptionStep(IF Head(events).name = "exception"
                     THEN ExceptionEventError(Head(events), status)
                     ELSE r,
                     Tail(events), status)

\* ...(value ? { key: value } : {})
TimestampOf(key, value) == IF Truthy(value) THEN <<KV(key, value)>> ELSE <<>>

Timestamps(otelSpan) ==
  Obj(TimestampOf("started_at", parseTimestamp(otelSpan.startTimeUnixNano))
        \o TimestampOf("finished_at", parseTimestamp(otelSpan.endTimeUnixNano))
        \o TimestampOf("first_token_at", FirstTokenAt(otelSpan.events)))

\* The locals after keyValueToObject(otelSpan.attributes).
Locals(trace, otelSpan, attributesMap) ==
  [am |-> attributesMap.value,
   threw |-> attributesMap.threw,
   type |-> TypeFromKind(otelSpan.kind),
   model |-> Undef, input |-> Null, output |-> Null,
   params |-> Obj(<<>>),
   reserved |-> trace.reservedTraceMetadata,
   custom |-> trace.customMetadata]

\* The span pushed to trace.spans. An absent field is undefined (Undefined
\* for parent_id); error is absent when no error was found.
CanonicalSpan(m, otelSpan, error) ==
  [span_id |-> otelSpan.spanId,
   trace_id |-> otelSpan.traceId,
   parent_id |-> IF otelSpan.parentSpanId \in {Undefined, <<>>}
                 THEN Undefined ELSE otelSpan.parentSpanId,
   name |-> otelSpan.name,
   type |-> m.type,
   model |-> m.model,
   input |-> m.input,
   output |-> m.output,
   error |-> error,
   params |-> m.params,
   timestamps |-> Timestamps(otelSpan)]

\* trace.spans.push(span)
\* A span list built at the front.
PushSpanFirst(spans, span) == <<span>> \o spans

PushSpan(spans, span) == Append(spans, span)

\* The trace after the call, from the locals m and the error found, or threw.
SpanAdded(trace, otelSpan, m, error) ==
  IF m.threw \/ error.threw THEN Threw
  ELSE Ok([traceId |-> trace.traceId,
           spans |-> PushSpan(trace.spans, CanonicalSpan(m, otelSpan, error.value)),
           reservedTraceMetadata |-> m.reserved,
           customMetadata |-> m.custom])

addOpenTelemetrySpanAsSpan(trace, otelSpan, otelScope) ==
  SpanAdded(trace, otelSpan,
    RunSteps(Locals(trace, otelSpan, keyValueToObject(otelSpan.attributes)),
             1, otelScope),
    ExceptionStep(Ok(StatusError(otelSpan.status)), otelSpan.events,
                  otelSpan.status))

(***************************************************************************)
(* The Trace Grouper and the ID Decoder.                                   *)
(***************************************************************************)
RECURSIVE Flatten(_)
\* flatMap: the members of the sequences of seqs, in order.
Flatten(seqs) == IF seqs = <<>> THEN <<>> ELSE Head(seqs) \o Flatten(Tail(seqs))

ScopeSpansOf(otelTrace) ==
  Flatten([r \in 1..Len(otelTrace.resourceSpans) |->
            otelTrace.resourceSpans[r].scopeSpans])

\* Every span of the request, in encounter order.
SpansOf(otelTrace) ==
  LET scopes == ScopeSpansOf(otelTrace)
  IN Flatten([i \in 1..Len(scopes) |-> scopes[i].spans])

DecodeSpanIds(span) ==
  [span EXCEPT !.traceId = DecodeId(span.traceId),
               !.spanId = DecodeId(span.spanId),
               !.parentSpanId = DecodeId(span.parentSpanId)]

\* The request after the call: its spans' ids are decoded in place.
decodeOpenTelemetryIds(otelTrace) ==
  [resourceSpans |->
    [r \in 1..Len(otelTrace.resourceSpans) |->
      [otelTrace.resourceSpans[r] EXCEPT !.scopeSpans =
        [sc \in 1..Len(@) |->
          [@[sc] EXCEPT !.spans =
            [i \in 1..Len(@) |-> DecodeSpanIds(@[i])]]]]]]

RECURSIVE Distinct(_, _)
\* Array.from(new Set(ids)): the distinct ids, in order of first occurrence.
Distinct(ids, seen) ==
  IF ids = <<>> THEN <<>>
  ELSE IF Head(ids) \in seen THEN Distinct(Tail(ids), seen)
  ELSE <<Head(ids)>> \o Distinct(Tail(ids), seen \cup {Head(ids)})

TraceIdsOf(otelTrace) ==
  LET spans == SpansOf(otelTrace)
  IN Distinct([i \in 1..Len(spans) |-> spans[i].traceId], {})

\* A filter that keeps the spans of every trace.
SpanMatchesAny(span, traceId) == TRUE

\* span?.traceId === traceId
SpanMatches(span, traceId) == span.traceId = traceId

\* The resource groups with at least one span of the trace.
ResourceSpansOfTrace(otelTrace, traceId) ==
  SelectSeq(otelTrace.resourceSpans,
    LAMBDA resourceSpan :
      \E sc \in 1..Len(resourceSpan.scopeSpans) :
        \E i \in 1..Len(resourceSpan.scopeSpans[sc].spans) :
          SpanMatches(resourceSpan.scopeSpans[sc].spans[i], traceId))

\* The dotted key as one string, for the keys resource attributes carry.
FlatKey(key) ==
  IF key = <<"service", ".", "name">> THEN "service.name" ELSE Head(key)

RECURSIVE ResourceMetadata(_, _)
\* customMetadata[attribute.key] = attribute?.value?.stringValue
ResourceMetadata(customMetadata, attributes) ==
  IF attributes = <<>> THEN customMetadata
  ELSE LET attribute == Head(attributes)
           next == IF attribute.key \in {Undefined, <<>>} THEN customMetadata
                   ELSE SetProp(customMetadata, FlatKey(attribute.key),
                          IF attribute.value.kind = "stringValue"
                          THEN attribute.value.v ELSE Undef)
       IN ResourceMetadata(next, Tail(attributes))

\* The spans of scope groups, each with the scope of its group.
Tagged(scopes) ==
  Flatten([i \in 1..Len(scopes) |->
    [j \in 1..Len(scopes[i].spans) |->
      [span |-> scopes[i].spans[j], scope |-> scopes[i].scope]]])

\* The spans of the trace with their scopes, in encounter order.
SpansOfTrace(otelTrace, traceId) ==
  SelectSeq(Tagged(ScopeSpansOf(otelTrace)),
            LAMBDA e : SpanMatches(e.span, traceId))

RECURSIVE AddSpans(_, _)
\* The loop over the spans of the trace r.value; it ends at the first call
\* that throws.
AddSpans(r, tagged) ==
  IF r.threw \/ tagged = <<>> THEN r
  ELSE AddSpans(addOpenTelemetrySpanAsSpan(r.value, Head(tagged).span,
                                           Head(tagged).scope),
                Tail(tagged))

\* The resource attributes of all the resource groups, in order.
ResourceAttributes(otelTrace) ==
  Flatten([r \in 1..Len(otelTrace.resourceSpans) |->
            otelTrace.resourceSpans[r].resource.attributes])

openTelemetryTraceRequestToTraceForCollection(traceId, otelTrace) ==
  AddSpans(Ok([traceId |-> traceId,
               spans |-> <<>>,
               reservedTraceMetadata |-> Obj(<<>>),
               customMetadata |->
                 ResourceMetadata(Obj(<<>>), ResourceAttributes(otelTrace))]),
           SpansOfTrace(otelTrace, traceId))

\* traceIds.map(...): the trace of each trace id, from the resource groups
\* that hold a span of it.
TracesOf(decoded, traceIds) ==
  [i \in 1..Len(traceIds) |->
    openTelemetryTraceRequestToTraceForCollection(traceIds[i],
      [resourceSpans |-> ResourceSpansOfTrace(decoded, traceIds[i])])]

\* What the call leaves: threw or the traces, and the argument as decoded.
Outcome(decoded, traces) ==
  [threw |-> \E i \in 1..Len(traces) : traces[i].threw,
   traces |-> IF \E i \in 1..Len(traces) : traces[i].threw THEN <<>>
              ELSE [i \in 1..Len(traces) |-> traces[i].value],
   otelTrace |-> decoded]

\* The grouping of the request whose ids are decoded.
GroupDecoded(decoded) == Outcome(decoded, TracesOf(decoded, TraceIdsOf(decoded)))

\* The traces returned, or threw; the argument is left with its ids decoded.
openTelemetryTraceRequestToTracesForCollection(otelTrace) ==
  GroupDecoded(decodeOpenTelemetryIds(otelTrace))

(***************************************************************************)
(* The requests of the model.                                              *)
(***************************************************************************)
NoStatus == [code |-> Undef, message |-> Undef]

\* A span with ids and a name only.
BareSpan(traceId, spanId, parentSpanId, name) ==
  [traceId |-> traceId, spanId |-> spanId, parentSpanId |-> parentSpanId,
   name |-> name, kind |-> Undef,
   startTimeUnixNano |-> Undef, endTimeUnixNano |-> Undef,
   attributes |-> <<>>, events |-> <<>>, status |-> NoStatus]

SeqsUpTo(S, n) == UNION {[1..k -> S] : k \in 0..n}

SpanNames == <<"s1", "s2", "s3", "s4", "s5">>

\* Encoded span ids: the bytes 01, 02, 03, 04, 05.
SpanIds ==
  << <<"A", "Q", "=", "=">>, <<"A", "g", "=", "=">>, <<"A", "w", "=", "=">>,
     <<"B", "A", "=", "=">>, <<"B", "Q", "=", "=">> >>

\* Encoded trace ids of the grouping requests: the bytes 01, 02, and 01
\* again without its padding.
GroupTraceIds == {<<"A", "Q", "=", "=">>, <<"A", "g", "=", "=">>, <<"A", "Q">>}

\* A place is a resource group and a scope group in it.
Places == {1, 2, 3, 4}

ResourceOfPlace(p) == ((p - 1) \div 2) + 1

ScopeOfPlace(p) == ((p - 1) % 2) + 1

\* The spans placed: each has a place and a trace id, the places in order.
Placements ==
  {f \in SeqsUpTo(Places \X GroupTraceIds, MaxSpans) :
     \A i \in 1..(Len(f) - 1) : f[i][1] <= f[i + 1][1]}

GroupRequest(f) ==
  LET at(p) == SelectSeq([i \in 1..Len(f) |-> i], LAMBDA i : f[i][1] = p)
      spansAt(p) == [j \in 1..Len(at(p)) |->
                      BareSpan(f[at(p)[j]][2], SpanIds[at(p)[j]], Undefined,
                               SpanNames[at(p)[j]])]
  IN [resourceSpans |->
       [r \in 1..2 |->
         [resource |-> [attributes |-> <<>>],
          scopeSpans |->
            [sc \in 1..2 |->
              [scope |-> Undef, spans |-> spansAt((2 * (r - 1)) + sc)]]]]]

GroupRequests == {GroupRequest(f) : f \in Placements}

\* One resource group with one scope group holding the spans.
RequestOf(attributes, scope, spans) ==
  [resourceSpans |->
    <<[resource |-> [attributes |-> attributes],
       scopeSpans |-> <<[scope |-> scope, spans |-> spans]>>]>>]

IdAlphabet == {"A", "Q", "f", "="}

EncodedIds == SeqsUpTo(IdAlphabet, MaxIdLen) \cup {Undefined}

\* The bytes 12 34 56, the bytes ab cd, the empty string, no id.
OtherIds ==
  {<<"E", "j", "R", "W">>, <<"q", "8", "0", "=">>, <<>>, Undefined}

IdRequests ==
  {RequestOf(<<>>, Undef, <<BareSpan(t, ids[1], ids[2], "s1")>>) :
     t \in EncodedIds, ids \in OtherIds \X OtherIds}

(***************************************************************************)
(* The caller holds one request object, payload, and passes it to convert  *)
(* (openTelemetryTraceRequestToTracesForCollection), possibly again.       *)
(* original is the request as built, snapshots the payload after each      *)
(* call, results what each call returned.                                  *)
(***************************************************************************)
Start(requests) ==
  /\ payload \in requests
  /\ original = payload
  /\ snapshots = <<>>
  /\ results = <<>>

\* The call returns r to the caller, whose object it has changed.
Returns(r) ==
  /\ payload' = r.otelTrace
  /\ snapshots' = Append(snapshots, r.otelTrace)
  /\ results' = Append(results, [threw |-> r.threw, traces |-> r.traces])

Convert ==
  /\ Len(results) < MaxCalls
  /\ Returns(openTelemetryTraceRequestToTracesForCollection(payload))
  /\ UNCHANGED original

Next == Convert

Init == Start(GroupRequests \cup IdRequests)

Spec == Init /\ [][Next]_vars

(***************************************************************************)
(* Requests of one span with attributes, for the Semantic Mapper.          *)
(***************************************************************************)
MaxAttrs == 2

Key1(a) == <<a>>

Key2(a, b) == <<a, ".", b>>

Key3(a, b, c) == <<a, ".", b, ".", c>>

RequestTypeKey == Key3("llm", "request", "type")

AttrPool ==
  { KeyValue(RequestTypeKey, StringValue("chat")),
    KeyValue(RequestTypeKey, StringValue("completion")),
    KeyValue(RequestTypeKey, StringValue("embedding")),
    KeyValue(Key3("openinference", "span", "kind"), StringValue("CHAIN")),
    KeyValue(Key3("openinference", "span", "kind"), IntValue(Num(5))),
    KeyValue(Key3("traceloop", "span", "kind"), StringValue("tool")),
    KeyValue(Key1("a"), StringValue("x")),
    KeyValue(Key2("a", "b"), StringValue("y")),
    KeyValue(Key2("input", "mime_type"), StringValue("text/plain")),
    KeyValue(Key1("flag"), BoolValue(FALSE)),
    KeyValue(Key2("user", "id"), StringValue("u1")),
    KeyValue(Key1("metadata"),
             KvlistValue(<<KeyValue("user_id", StringValue("u9"))>>)) }

KindPool == {Undef, Num(2)}

\* The resource attributes and the scope around the span.
EnvelopePool ==
  { [attributes |-> <<>>, scope |-> Undef],
    [attributes |-> <<KeyValue(Key1("user_id"), StringValue("r1"))>>,
     scope |-> Obj(<<KV("name", Str("lib"))>>)] }

AttrSpan(kind, attributes) ==
  [BareSpan(SpanIds[1], SpanIds[2], Undefined, "s1") EXCEPT
     !.kind = kind, !.attributes = attributes]

MapperRequests ==
  {RequestOf(e.attributes, e.scope, <<AttrSpan(kind, attributes)>>) :
     e \in EnvelopePool, kind \in KindPool,
     attributes \in SeqsUpTo(AttrPool, MaxAttrs)}

InitMapper == Start(MapperRequests)

SpecMapper == InitMapper /\ [][Next]_vars

(***************************************************************************)
(* Requests of one span whose attributes have a key once, as OTLP asks,    *)
(* one family for each convention of the Semantic Mapper.                  *)
(***************************************************************************)
MaxKeys == 3

KeysOnce(attributes) ==
  \A i, j \in 1..Len(attributes) : attributes[i].key = attributes[j].key => i = j

AttrsOnce(pool, n) == {attributes \in SeqsUpTo(pool, n) : KeysOnce(attributes)}

SpanRequests(envelopes, kinds, attributes) ==
  {RequestOf(e.attributes, e.scope, <<AttrSpan(kind, a)>>) :
     e \in envelopes, kind \in kinds, a \in attributes}

\* Model names under the three model paths.
ModelKeys ==
  <<Key2("llm", "model_name"), Key3("gen_ai", "request", "model"),
    Key3("gen_ai", "response", "model")>>

ModelPool ==
  { KeyValue(ModelKeys[1], StringValue("gpt-4")),
    KeyValue(ModelKeys[2], StringValue("m2")),
    KeyValue(ModelKeys[3], StringValue("m3")),
    KeyValue(ModelKeys[3], StringValue("gpt-4")),
    KeyValue(Key2("gen_ai", "system"), StringValue("openai")),
    KeyValue(RequestTypeKey, StringValue("chat")) }

InitModel == Start(SpanRequests(EnvelopePool, KindPool, AttrsOnce(ModelPool, MaxKeys)))

SpecModel == InitModel /\ [][Next]_vars

\* The input sources, traceloop.entity.input with and without a metadata.
EntityInputKey == Key3("traceloop", "entity", "input")

InputMessagesKey == Key2("llm", "input_messages")

PromptKey == Key2("gen_ai", "prompt")

InputValueKey == Key2("input", "value")

EntityPool ==
  { KeyValue(EntityInputKey, StringValue("{\"q\":\"hi\"}")),
    KeyValue(EntityInputKey,
      StringValue("{\"q\":\"hi\",\"metadata\":{\"user_id\":\"u3\",\"foo\":\"baz\"}}")),
    KeyValue(EntityInputKey,
      StringValue("{\"metadata\":{\"thread_id\":\"t1\",\"labels\":[\"a\"],\"n\":1}}")),
    KeyValue(EntityInputKey,
      StringValue("{\"q\":\"hi\",\"metadata\":{\"user_id\":7}}")),
    KeyValue(InputMessagesKey,
      StringValue("[{\"message\":{\"role\":\"user\",\"content\":\"hi\"}}]")),
    KeyValue(PromptKey, StringValue("[{\"role\":\"user\",\"content\":\"hi\"}]")),
    KeyValue(InputValueKey, StringValue("hello")),
    KeyValue(Key2("user", "id"), StringValue("u1")) }

InitEntity == Start(SpanRequests(EnvelopePool, {Undef}, AttrsOnce(EntityPool, MaxKeys)))

SpecEntity == InitEntity /\ [][Next]_vars

\* Requests of one span with a status and events, for Exception.
MaxEvents == 2

StatusPool ==
  {[code |-> code, message |-> message] :
     code \in {Undef, Num(0), Num(1), Num(2), Str("STATUS_CODE_ERROR"),
               Str("STATUS_CODE_OK")},
     message \in {Undef, Null, Str("boom"), Str("")}}

Event(name, attributes) ==
  [name |-> name, timeUnixNano |-> Undef, attributes |-> attributes]

EventPool ==
  { Event("exception",
          <<KeyValue(Key2("exception", "type"), StringValue("ValueError")),
            KeyValue(Key2("exception", "message"), StringValue("bad")),
            KeyValue(Key2("exception", "stacktrace"), StringValue("at f\nat g"))>>),
    Event("exception",
          <<KeyValue(Key2("exception", "type"), StringValue("KeyError")),
            KeyValue(Key2("exception", "message"), StringValue("gone"))>>),
    Event("exception",
          <<KeyValue(Key2("exception", "message"), StringValue("bad"))>>),
    Event("exception", <<>>),
    Event("log", <<KeyValue(Key2("exception", "message"), StringValue("bad"))>>) }

ErrorSpan(status, events) ==
  [BareSpan(SpanIds[1], SpanIds[2], Undefined, "s1") EXCEPT
     !.status = status, !.events = events]

ErrorRequests ==
  {RequestOf(<<>>, Undef, <<ErrorSpan(status, events)>>) :
     status \in StatusPool, events \in SeqsUpTo(EventPool, MaxEvents)}

InitError == Start(ErrorRequests)

SpecError == InitError /\ [][Next]_vars

\* Requests of one span with an attribute n that is a split 64-bit integer.
\* A 32-bit word is given by its number, signed or unsigned, and bits holds
\* its 32 bits as two digits of 16 bits, the low one first.
WordPool ==
  { [value |-> Num(0), bits |-> <<0, 0>>],
    [value |-> Num(1), bits |-> <<1, 0>>],
    [value |-> Num(-1), bits |-> <<65535, 65535>>],
    [value |-> Num(2097152), bits |-> <<0, 32>>],
    [value |-> Num(2147483647), bits |-> <<65535, 32767>>],
    [value |-> Wide(TRUE, <<0, 32768>>), bits |-> <<0, 32768>>],
    [value |-> Wide(FALSE, <<0, 32768>>), bits |-> <<0, 32768>>],
    [value |-> Wide(FALSE, <<65535, 65535>>), bits |-> <<65535, 65535>>] }

LongBits(high, low, unsigned) ==
  Obj(<<KV("low", low), KV("high", high)>>
        \o IF unsigned = Undef THEN <<>> ELSE <<KV("unsigned", unsigned)>>)

LongKey == Key1("n")

LongRequests ==
  {RequestOf(<<>>, Undef,
     <<AttrSpan(Undef, <<KeyValue(LongKey,
                           IntValue(LongBits(high.value, low.value, unsigned)))>>)>>) :
     high \in WordPool, low \in WordPool,
     unsigned \in {Undef, Bool(FALSE), Bool(TRUE)}}

InitLong == Start(LongRequests)

SpecLong == InitLong /\ [][Next]_vars

\* Requests of one span with indexed attributes: a.<i> of texts and m.<i>.r,
\* next to a plain one.
ArrayPool ==
  { KeyValue(Key2("a", "0"), StringValue("x")),
    KeyValue(Key2("a", "1"), StringValue("y")),
    KeyValue(Key2("a", "2"), StringValue("z")),
    KeyValue(Key2("a", "4"), StringValue("w")),
    KeyValue(Key3("m", "0", "r"), StringValue("u")),
    KeyValue(Key3("m", "1", "r"), StringValue("v")),
    KeyValue(Key1("b"), StringValue("k")) }

InitArray ==
  Start(SpanRequests({[attributes |-> <<>>, scope |-> Undef]}, {Undef},
                     AttrsOnce(ArrayPool, MaxKeys)))

SpecArray == InitArray /\ [][Next]_vars

\* Requests of one span with a span kind and the attributes of Type.
SpanKindKey(vendor) == Key3(vendor, "span", "kind")

TypePool ==
  { KeyValue(SpanKindKey("openinference"), StringValue("LLM")),
    KeyValue(SpanKindKey("openinference"), StringValue("CHAIN")),
    KeyValue(SpanKindKey("openinference"), StringValue("RETRIEVER")),
    KeyValue(SpanKindKey("traceloop"), StringValue("tool")),
    KeyValue(SpanKindKey("traceloop"), StringValue("bogus")),
    KeyValue(RequestTypeKey, StringValue("chat")),
    KeyValue(RequestTypeKey, StringValue("embedding")),
    KeyValue(Key1("b"), StringValue("k")) }

SpanKinds == {Undef, Num(1), Num(2), Num(3), Str("SPAN_KIND_PRODUCER"), Num(5)}

InitType ==
  Start(SpanRequests({[attributes |-> <<>>, scope |-> Undef]}, SpanKinds,
                     AttrsOnce(TypePool, MaxKeys)))

SpecType == InitType /\ [][Next]_vars

\* Requests of one span with the sources of Input, valid and not.
InputPool ==
  { KeyValue(InputMessagesKey,
      StringValue("[{\"message\":{\"role\":\"user\",\"content\":\"hi\"}}]")),
    KeyValue(InputMessagesKey, StringValue("[{\"message\":\"oops\"}]")),
    KeyValue(InputMessagesKey, StringValue("plain")),
    KeyValue(PromptKey, StringValue("[{\"role\":\"assistant\",\"content\":\"yo\"}]")),
    KeyValue(PromptKey, StringValue("[1,2]")),
    KeyValue(EntityInputKey, StringValue("{\"q\":\"hi\"}")),
    KeyValue(EntityInputKey, StringValue("ask")),
    KeyValue(InputValueKey, StringValue("hello")),
    KeyValue(Key2("input", "mime_type"), StringValue("text/plain")) }

InitInput ==
  Start(SpanRequests({[attributes |-> <<>>, scope |-> Undef]}, {Undef},
                     AttrsOnce(InputPool, MaxKeys)))

SpecInput == InitInput /\ [][Next]_vars

\* Requests of one span with the sources of Output, valid and not.
OutputKeys ==
  <<Key2("llm", "output_messages"), Key2("gen_ai", "completion"),
    Key3("traceloop", "entity", "output"), Key2("output", "value")>>

OutputPool ==
  { KeyValue(OutputKeys[1],
      StringValue("[{\"message\":{\"role\":\"user\",\"content\":\"hi\"}}]")),
    KeyValue(OutputKeys[1], StringValue("[{\"message\":\"oops\"}]")),
    KeyValue(OutputKeys[1], StringValue("plain")),
    KeyValue(OutputKeys[2], StringValue("[{\"role\":\"assistant\",\"content\":\"yo\"}]")),
    KeyValue(OutputKeys[2], StringValue("[1,2]")),
    KeyValue(OutputKeys[3], StringValue("{\"q\":\"hi\"}")),
    KeyValue(OutputKeys[3], StringValue("done")),
    KeyValue(OutputKeys[4], StringValue("bye")),
    KeyValue(Key2("output", "mime_type"), StringValue("text/plain")) }

InitOutput ==
  Start(SpanRequests({[attributes |-> <<>>, scope |-> Undef]}, {Undef},
                     AttrsOnce(OutputPool, MaxKeys)))

SpecOutput == InitOutput /\ [][Next]_vars

\* Requests of one span with attributes of every convention of the mapper,
\* next to some it does not consume; the attributes keep the order of the
\* list (the tree they expand to does not depend on it).
ParamsPool ==
  << KeyValue(SpanKindKey("openinference"), StringValue("CHAIN")),
     KeyValue(SpanKindKey("traceloop"), StringValue("bogus")),
     KeyValue(RequestTypeKey, StringValue("chat")),
     KeyValue(ModelKeys[1], StringValue("gpt-4")),
     KeyValue(ModelKeys[2], StringValue("m2")),
     KeyValue(InputMessagesKey,
       StringValue("[{\"message\":{\"role\":\"user\",\"content\":\"hi\"}}]")),
     KeyValue(PromptKey, StringValue("[{\"role\":\"assistant\",\"content\":\"yo\"}]")),
     KeyValue(EntityInputKey, StringValue("{\"q\":\"hi\"}")),
     KeyValue(InputValueKey, StringValue("hello")),
     KeyValue(OutputKeys[1], StringValue("[{\"message\":\"oops\"}]")),
     KeyValue(OutputKeys[2], StringValue("[{\"role\":\"user\",\"content\":\"hi\"}]")),
     KeyValue(OutputKeys[3], StringValue("done")),
     KeyValue(OutputKeys[4], StringValue("bye")),
     KeyValue(Key2("user", "id"), StringValue("u1")),
     KeyValue(Key2("session", "id"), StringValue("s1")),
     KeyValue(Key2("tag", "tags"), ArrayValue(<<StringValue("a")>>)),
     KeyValue(Key1("metadata"), KvlistValue(<<KeyValue("foo", StringValue("bar"))>>)),
     KeyValue(Key2("llm", "invocation_parameters"), StringValue("{\"temperature\":1}")),
     KeyValue(Key2("llm", "is_streaming"), BoolValue(TRUE)),
     KeyValue(Key2("llm", "top_p"), StringValue("5")) >>

RECURSIVE PlacesOf(_, _)
\* The elements of a list at the places of a set, in the list's order.
PlacesOf(list, S) ==
  IF list = <<>> THEN <<>>
  ELSE PlacesOf(SubSeq(list, 1, Len(list) - 1), S)
         \o IF Len(list) \in S THEN <<list[Len(list)]>> ELSE <<>>

ParamsAttributes ==
  {PlacesOf(ParamsPool, S) :
     S \in {T \in SUBSET (1..Len(ParamsPool)) : Cardinality(T) <= MaxKeys}}

InitParams ==
  Start(SpanRequests({[attributes |-> <<>>, scope |-> Obj(<<KV("name", Str("lib"))>>)]},
                     {Undef}, ParamsAttributes))

SpecParams == InitParams /\ [][Next]_vars

\* Requests of one span with the streaming flag, in the forms a value has
\* on the wire.
StreamingKey == Key2("llm", "is_streaming")

StreamPool ==
  { KeyValue(StreamingKey, StringValue("false")),
    KeyValue(StreamingKey, StringValue("False")),
    KeyValue(StreamingKey, StringValue("true")),
    KeyValue(StreamingKey, StringValue("yes")),
    KeyValue(StreamingKey, BoolValue(TRUE)),
    KeyValue(StreamingKey, BoolValue(FALSE)),
    KeyValue(StreamingKey, IntValue(Num(1))),
    KeyValue(Key2("llm", "top_p"), StringValue("5")),
    KeyValue(Key2("llm", "invocation_parameters"), StringValue("{\"temperature\":1}")),
    KeyValue(Key1("b"), StringValue("k")) }

InitStream == Start(SpanRequests(EnvelopePool, {Undef}, AttrsOnce(StreamPool, MaxKeys)))

SpecStream == InitStream /\ [][Next]_vars

\* Requests of one span with a start and an end time. A time is given with
\* what it says: nanos tells whether it is a number n of nanoseconds other
\* than zero, and millis is round(n / 1e6) then. The split words 395812094
\* and 908722176 hold 1700000000000000000 ns, which is 1700000000000 ms.
TimePool ==
  { [value |-> Undef, nanos |-> FALSE, millis |-> Undef],
    [value |-> Num(0), nanos |-> FALSE, millis |-> Undef],
    [value |-> Str("0"), nanos |-> FALSE, millis |-> Undef],
    [value |-> Str("soon"), nanos |-> FALSE, millis |-> Undef],
    [value |-> LongBits(Num(0), Num(0), Undef), nanos |-> FALSE, millis |-> Undef],
    [value |-> Str("1500000"), nanos |-> TRUE, millis |-> Num(2)],
    [value |-> Str("499999"), nanos |-> TRUE, millis |-> Num(0)],
    [value |-> Num(2000000), nanos |-> TRUE, millis |-> Num(2)],
    [value |-> Num(1499999), nanos |-> TRUE, millis |-> Num(1)],
    [value |-> LongBits(Num(0), Num(1500000), Undef), nanos |-> TRUE,
     millis |-> Num(2)],
    [value |-> LongBits(Num(1), Num(0), Undef), nanos |-> TRUE,
     millis |-> Num(4295)],
    [value |-> LongBits(Num(395812094), Num(908722176), Undef), nanos |-> TRUE,
     millis |-> Wide(FALSE, <<26624, 53221, 395>>)] }

TimeSpan(start, end) ==
  [BareSpan(SpanIds[1], SpanIds[2], Undefined, "s1") EXCEPT
     !.startTimeUnixNano = start, !.endTimeUnixNano = end]

TimeRequests ==
  {RequestOf(<<>>, Undef, <<TimeSpan(start.value, end.value)>>) :
     start \in TimePool, end \in TimePool}

InitTime == Start(TimeRequests)

SpecTime == InitTime /\ [][Next]_vars

\* Requests of two resource groups, each with resource attributes and up to
\* two spans of two traces.
ResourcePool ==
  << { <<>>,
       <<KeyValue(Key2("service", "name"), StringValue("svc"))>>,
       <<KeyValue(Key2("service", "name"), StringValue("svc")),
         KeyValue(Key1("pid"), IntValue(Num(7)))>> },
     { <<>>,
       <<KeyValue(Key1("user_id"), StringValue("r1"))>>,
       <<KeyValue(Key2("service", "name"), StringValue("other"))>> } >>

ResourceTraceIds == {<<"A", "Q", "=", "=">>, <<"A", "g", "=", "=">>}

ResourceGroup(attributes, traceIds, first) ==
  [resource |-> [attributes |-> attributes],
   scopeSpans |->
     <<[scope |-> Undef,
        spans |-> [i \in 1..Len(traceIds) |->
                     BareSpan(traceIds[i], SpanIds[first + i], Undefined,
                              SpanNames[first + i])]]>>]

ResourceRequests ==
  {[resourceSpans |-> <<ResourceGroup(a1, t1, 0), ResourceGroup(a2, t2, 2)>>] :
     a1 \in ResourcePool[1], a2 \in ResourcePool[2],
     t1 \in SeqsUpTo(ResourceTraceIds, 2), t2 \in SeqsUpTo(ResourceTraceIds, 2)}

InitResource == Start(ResourceRequests)

SpecResource == InitResource /\ [][Next]_vars

\* Requests of one span whose metadata attribute is a map of one or two
\* typed values, each with one variant or none.
ValuePool ==
  { StringValue("hello"), StringValue("None"), StringValue("5"),
    StringValue("true"), StringValue(""),
    BoolValue(TRUE), BoolValue(FALSE),
    IntValue(Num(7)), IntValue(Num(0)), IntValue(Num(-1)),
    DoubleValue(Num(2)), DoubleValue(Num(0)),
    AnyUndefined, AnyEmpty }

ValueKeys == <<"v", "u">>

ValueMaps ==
  {[i \in 1..n |-> KeyValue(ValueKeys[i], values[i])] :
     n \in {1, 2}, values \in [1..2 -> ValuePool]}

ValueRequests ==
  SpanRequests({[attributes |-> <<>>, scope |-> Undef]}, {Undef},
               {<<KeyValue(Key1("metadata"), KvlistValue(kvs))>> : kvs \in ValueMaps})

InitValue == Start(ValueRequests)

SpecValue == InitValue /\ [][Next]_vars

\* Requests of one trace of up to MaxSpans spans, each with no attribute or
\* with metadata attributes.
MetadataPool ==
  { <<>>,
    <<KeyValue(Key2("user", "id"), StringValue("u1"))>>,
    <<KeyValue(Key2("user", "id"), StringValue("u2"))>>,
    <<KeyValue(Key2("session", "id"), StringValue("t1"))>>,
    <<KeyValue(Key2("tag", "tags"), ArrayValue(<<StringValue("a")>>))>>,
    <<KeyValue(Key2("tag", "tags"), ArrayValue(<<StringValue("b")>>))>>,
    <<KeyValue(Key1("metadata"), KvlistValue(<<KeyValue("foo", StringValue("x"))>>))>>,
    <<KeyValue(Key1("metadata"), KvlistValue(<<KeyValue("foo", StringValue("y"))>>))>>,
    <<KeyValue(Key1("metadata"), KvlistValue(<<KeyValue("bar", StringValue("z"))>>)),
      KeyValue(Key2("session", "id"), StringValue("t2"))>> }

MetadataSpans(attributes) ==
  [i \in 1..Len(attributes) |->
     [BareSpan(SpanIds[1], SpanIds[i], Undefined, SpanNames[i]) EXCEPT
        !.attributes = attributes[i]]]

MetadataRequests ==
  {RequestOf(<<>>, Undef, MetadataSpans(attributes)) :
     attributes \in SeqsUpTo(MetadataPool, MaxSpans) \ {<<>>}}

InitMetadata == Start(MetadataRequests)

SpecMetadata == InitMetadata /\ [][Next]_vars

\* Requests of one span with up to MaxEvents events, each with a name and a
\* time of TimePool.
TokenTimes ==
  {Undef, Num(0), Str("soon"), Str("499999"), Str("1500000"), Num(1499999)}

TokenPool ==
  {[Event(name, <<>>) EXCEPT !.timeUnixNano = time] :
     name \in {"First Token Stream Event", "llm.content.completion.chunk", "log"},
     time \in TokenTimes}

TokenRequests ==
  {RequestOf(<<>>, Undef, <<ErrorSpan(NoStatus, events)>>) :
     events \in SeqsUpTo(TokenPool, MaxEvents)}

InitToken == Start(TokenRequests)

SpecToken == InitToken /\ [][Next]_vars

(***************************************************************************)
(* What the claims speak of.                                               *)
(***************************************************************************)
\* The request the k-th call was given.
InputOf(k) == IF k = 1 THEN original ELSE snapshots[k - 1]

Calls == 1..Len(results)

Returned(k) == k \in Calls /\ ~results[k].threw

\* The three ids of every span of a request, in encounter order.
IdsOf(otelTrace) ==
  LET spans == SpansOf(otelTrace)
  IN [i \in 1..Len(spans) |->
       <<spans[i].traceId, spans[i].spanId, spans[i].parentSpanId>>]

\* The hex form the ID Decoder is to give an encoded id.
HexOf(id) == IF id \in {Undefined, <<>>} THEN id ELSE Base64ToHex(id)

\* The spans of all the traces of a result.
OutputSpans(k) ==
  Flatten([i \in 1..Len(results[k].traces) |-> results[k].traces[i].spans])

NamesOf(spans) == [i \in 1..Len(spans) |-> spans[i].name]

\* The value of the last attribute with the key, or AnyUndefined.
LastValue(attributes, key) ==
  IF \E i \in 1..Len(attributes) : attributes[i].key = key
  THEN attributes[CHOOSE i \in 1..Len(attributes) :
                    /\ attributes[i].key = key
                    /\ \A j \in (i + 1)..Len(attributes) : attributes[j].key # key].value
  ELSE AnyUndefined

(***************************************************************************)
(* Claims about the caller's request and the Trace Grouper.                *)
(***************************************************************************)
\* C1: after convert returns, every span's traceId, spanId and parentSpanId
\* in the caller's payload hold the encoded values they held before the call.
C1_CallerPayloadUnchanged ==
  results # <<>> => IdsOf(payload) = IdsOf(original)

\* C2: the output holds exactly one trace per distinct decoded traceId among
\* the input spans, every span of a trace carries the trace's traceId, and
\* every input span is in exactly one output trace.
C2_OneTracePerTraceId ==
  \A k \in Calls :
    Returned(k) =>
      LET traces == results[k].traces
          input == SpansOf(InputOf(k))
      IN /\ \A i, j \in 1..Len(traces) :
              traces[i].traceId = traces[j].traceId => i = j
         /\ {traces[i].traceId : i \in 1..Len(traces)}
              = {HexOf(input[p].traceId) : p \in 1..Len(input)}
         /\ \A i \in 1..Len(traces) : \A j \in 1..Len(traces[i].spans) :
              traces[i].spans[j].trace_id = traces[i].traceId
         /\ \A p \in 1..Len(input) :
              Cardinality({ij \in {<<i, j>> : i \in 1..Len(traces), j \in 1..MaxSpans + 1} :
                             /\ ij[2] <= Len(traces[ij[1]].spans)
                             /\ traces[ij[1]].spans[ij[2]].name = input[p].name
                             /\ traces[ij[1]].spans[ij[2]].span_id = HexOf(input[p].spanId)})
                = 1
         /\ Len(OutputSpans(k)) = Len(input)

\* A call returned two traces for a request that has spans of two traces in
\* one scope group.
C2_Witness ==
  \E k \in Calls :
    /\ Returned(k)
    /\ Len(results[k].traces) = 2
    /\ \E sc \in 1..Len(ScopeSpansOf(InputOf(k))) :
         LET spans == ScopeSpansOf(InputOf(k))[sc].spans
         IN \E i, j \in 1..Len(spans) :
              HexOf(spans[i].traceId) # HexOf(spans[j].traceId)

\* C3: within each output trace the spans are in the order in which the
\* request holds them (resource group, then scope group, then span).
C3_SpanOrderKept ==
  \A k \in Calls :
    Returned(k) =>
      LET traces == results[k].traces
          input == SpansOf(InputOf(k))
      IN \A i \in 1..Len(traces) :
           NamesOf(traces[i].spans)
             = NamesOf(SelectSeq(input,
                 LAMBDA span : HexOf(span.traceId) = traces[i].traceId))

\* A trace of two spans with a span of another trace between them.
C3_Witness ==
  \E k \in Calls :
    /\ Returned(k)
    /\ LET input == SpansOf(InputOf(k))
       IN /\ Len(input) = 3
          /\ HexOf(input[1].traceId) = HexOf(input[3].traceId)
          /\ HexOf(input[1].traceId) # HexOf(input[2].traceId)
          /\ \E i \in 1..Len(results[k].traces) :
               NamesOf(results[k].traces[i].spans) = <<input[1].name, input[3].name>>

\* C5: the ID Decoder applied again to a request whose ids it has decoded to
\* hex gives every non-empty id a value other than the once-decoded one.
C5_DecodingTwiceChangesIds ==
  \A k \in 1..(Len(snapshots) - 1) :
    LET once == IdsOf(snapshots[k])
        twice == IdsOf(snapshots[k + 1])
    IN \A p \in 1..Len(once) : \A f \in 1..3 :
         once[p][f] \notin {Undefined, <<>>} => twice[p][f] # once[p][f]

\* The trace id AQ== was decoded to 01 by one call and to d3 by the next.
C5_Witness ==
  /\ Len(snapshots) >= 2
  /\ IdsOf(original) # <<>>
  /\ IdsOf(original)[1][1] = <<"A", "Q", "=", "=">>
  /\ IdsOf(snapshots[1])[1][1] = <<"0", "1">>
  /\ IdsOf(snapshots[2])[1][1] = <<"d", "3">>

\* C6: a call given a span with no traceId, or with no spanId, fails instead
\* of returning traces.
C6_MissingIdRejected ==
  \A k \in Calls :
    (\E p \in 1..Len(IdsOf(InputOf(k))) :
       IdsOf(InputOf(k))[p][1] = Undefined \/ IdsOf(InputOf(k))[p][2] = Undefined)
      => results[k].threw

(***************************************************************************)
(* Claims about the Semantic Mapper, on requests of one span.              *)
(***************************************************************************)
\* The span a returned call made of the request's one span.
TheSpan(k) == results[k].traces[1].spans[1]

TheAttributes(k) == SpansOf(InputOf(k))[1].attributes

\* The attribute keys of the requests that a convention of the mapper reads.
ConventionKeys ==
  {RequestTypeKey, Key3("openinference", "span", "kind"),
   Key3("traceloop", "span", "kind"), Key2("user", "id"), Key1("metadata")}

\* The native value the Value Decoder is to give a scalar wire value.
NativeValue(value) ==
  IF value.kind = "stringValue" /\ IsJson(value.v.s) THEN JsonParse(value.v.s)
  ELSE value.v

\* C7: a call on a request whose spans all carry ids returns traces and
\* raises no error, whatever the attribute keys and values are.
C7_NeverRaises == \A k \in Calls : ~results[k].threw

\* C8: every span attribute whose key is no convention path is in the output
\* span's params at its expanded path with its decoded value.
C8_Lossless ==
  \A k \in Calls :
    Returned(k) =>
      \A i \in 1..Len(TheAttributes(k)) :
        LET attribute == TheAttributes(k)[i]
        IN attribute.key \notin ConventionKeys
             => GetPath(TheSpan(k).params, Split(attribute.key))
                  = NativeValue(LastValue(TheAttributes(k), attribute.key))

\* C9: in every output trace no key is in both reservedTraceMetadata and
\* customMetadata.
C9_MetadataKeysDisjoint ==
  \A k \in Calls :
    Returned(k) =>
      \A i \in 1..Len(results[k].traces) :
        \A key \in ReservedKeys :
          ~(/\ HasKey(results[k].traces[i].reservedTraceMetadata, key)
            /\ HasKey(results[k].traces[i].customMetadata, key))

\* C10: an output span whose source span has llm.request.type "chat" or
\* "completion" has type "llm", whatever the span kind and the span.kind
\* attributes are, and has no llm.request.type in its params.
C10_RequestTypeMakesLlm ==
  \A k \in Calls :
    Returned(k) =>
      (LastValue(TheAttributes(k), RequestTypeKey)
           \in {StringValue("chat"), StringValue("completion")}
         => /\ TheSpan(k).type = "llm"
            /\ GetPath(TheSpan(k).params, Split(RequestTypeKey)) = Undef)

\* A server span with openinference.span.kind CHAIN before llm.request.type
\* chat came out with type llm.
C10_Witness ==
  \E k \in Calls :
    /\ Returned(k)
    /\ SpansOf(InputOf(k))[1].kind = Num(2)
    /\ TheAttributes(k)
         = <<KeyValue(Key3("openinference", "span", "kind"), StringValue("CHAIN")),
             KeyValue(RequestTypeKey, StringValue("chat"))>>
    /\ TheSpan(k).type = "llm"

(***************************************************************************)
(* Claims about the conventions of the Semantic Mapper.                    *)
(***************************************************************************)
HasAttribute(attributes, key) ==
  \E i \in 1..Len(attributes) : attributes[i].key = key

\* The model paths that an attribute of the k-th call's span has.
ModelsPresent(k) == {i \in 1..3 : HasAttribute(TheAttributes(k), ModelKeys[i])}

\* C11: the output span's model is the value of the attribute of the last
\* of llm.model_name, gen_ai.request.model, gen_ai.response.model that the
\* source span has, whatever the order of the attributes; none of the three
\* the span has is in params; the model is absent when the span has none.
C11_ModelLastWins ==
  \A k \in Calls :
    Returned(k) =>
      /\ \A i \in ModelsPresent(k) :
           GetPath(TheSpan(k).params, Split(ModelKeys[i])) = Undef
      /\ TheSpan(k).model
           = IF ModelsPresent(k) = {} THEN Undef
             ELSE NativeValue(LastValue(TheAttributes(k),
                    ModelKeys[CHOOSE i \in ModelsPresent(k) :
                                \A j \in ModelsPresent(k) : j <= i]))

\* A span with all three model attributes, the last path's first, got the
\* model of gen_ai.response.model.
C11_Witness ==
  \E k \in Calls :
    /\ Returned(k)
    /\ ModelsPresent(k) = {1, 2, 3}
    /\ TheAttributes(k)[1].key = ModelKeys[3]
    /\ TheSpan(k).model = Str("m3")

\* The parsed traceloop.entity.input of the k-th call's span.
EntityInput(k) == NativeValue(LastValue(TheAttributes(k), EntityInputKey))

\* traceloop.entity.input holds a metadata object and is the input source:
\* no source before it gave the input its chat messages.
MetadataInInput(k) ==
  /\ HasAttribute(TheAttributes(k), EntityInputKey)
  /\ IsObject(EntityInput(k))
  /\ Prop(EntityInput(k), "metadata").t = "obj"
  /\ Prop(TheSpan(k).input, "type") # Str("chat_messages")

\* C12: when traceloop.entity.input is the input source and is a JSON object
\* with a nested metadata object, every reserved key of the metadata is in
\* the trace's reservedTraceMetadata (with the metadata's value unless
\* user.id gives another), every other key is in customMetadata with its
\* value, and the span's params and input value hold neither the metadata
\* object nor any of its keys.
C12_NestedMetadataSplit ==
  \A k \in Calls :
    Returned(k) /\ MetadataInInput(k) =>
      LET metadata == Prop(EntityInput(k), "metadata")
          trace == results[k].traces[1]
          span == TheSpan(k)
      IN /\ \A i \in 1..Len(metadata.kids) :
              LET e == metadata.kids[i]
              IN /\ IF e.k \in ReservedKeys
                    THEN /\ HasKey(trace.reservedTraceMetadata, e.k)
                         /\ \/ Prop(trace.reservedTraceMetadata, e.k) = e.v
                            \/ HasAttribute(TheAttributes(k), Key2("user", "id"))
                    ELSE Prop(trace.customMetadata, e.k) = e.v
                 /\ ~HasKey(span.params, e.k)
                 /\ ~HasKey(Prop(span.input, "value"), e.k)
         /\ ~HasKey(span.params, "metadata")
         /\ GetPath(span.params, Split(EntityInputKey)) = Undef
         /\ ~HasKey(Prop(span.input, "value"), "metadata")
         /\ Prop(span.input, "value") = DeleteProp(EntityInput(k), "metadata")

\* A metadata of user_id and foo went to the two maps of the trace, and the
\* input is the object without it.
C12_Witness ==
  \E k \in Calls :
    /\ Returned(k)
    /\ MetadataInInput(k)
    /\ Prop(results[k].traces[1].reservedTraceMetadata, "user_id") = Str("u3")
    /\ Prop(results[k].traces[1].customMetadata, "foo") = Str("baz")
    /\ TheSpan(k).input
         = Obj(<<KV("type", Str("json")), KV("value", Obj(<<KV("q", Str("hi"))>>))>>)

(***************************************************************************)
(* Claims about Exception.                                                 *)
(***************************************************************************)
\* The one span of the request the k-th call was given.
TheSource(k) == SpansOf(InputOf(k))[1]

HasExceptionEvent(otelSpan) ==
  \E i \in 1..Len(otelSpan.events) : otelSpan.events[i].name = "exception"

\* C13: a span whose status code is 2 or STATUS_CODE_ERROR and that has no
\* event named "exception" gets the error {has_error: true, message,
\* stacktrace: []}, where message is the status message (the empty message
\* too), or "Exception" when the status has no message or a null one.
C13_StatusError ==
  \A k \in Calls :
    /\ Returned(k)
    /\ TheSource(k).status.code \in {Num(2), Str("STATUS_CODE_ERROR")}
    /\ ~HasExceptionEvent(TheSource(k))
    => TheSpan(k).error
         = Obj(<<KV("has_error", Bool(TRUE)),
                 KV("message", IF TheSource(k).status.message.t = "str"
                               THEN TheSource(k).status.message
                               ELSE Str("Exception")),
                 KV("stacktrace", ArrOf(<<>>))>>)

\* A span of status code 2 and no message, with an event that is no
\* exception, got the message "Exception".
C13_Witness ==
  \E k \in Calls :
    /\ Returned(k)
    /\ TheSource(k).status = [code |-> Num(2), message |-> Undef]
    /\ Len(TheSource(k).events) = 1
    /\ ~HasExceptionEvent(TheSource(k))
    /\ Prop(TheSpan(k).error, "message") = Str("Exception")

(***************************************************************************)
(* Claims about the Long-Word Decoder.                                     *)
(***************************************************************************)
\* The split integer the k-th call's span carries in n.
TheLong(k) == LastValue(TheAttributes(k), LongKey).v

BitsOf(word) == (CHOOSE p \in WordPool : p.value = word).bits

\* The 64 bits (high << 32) | (low & 0xFFFFFFFF), as four digits of 16 bits.
Word64(k) ==
  BitsOf(Prop(TheLong(k), "low")) \o BitsOf(Prop(TheLong(k), "high"))

\* The two's-complement signed value of 64 bits, as a number.
SignedValue(word) ==
  IF word[4] >= 32768 THEN NumberOf(TRUE, SubMag(<<0, 0, 0, 0, 1>>, word))
  ELSE NumberOf(FALSE, Trim(word))

IsNegative(v) == v.t = "num" /\ (v.n < 0 \/ (v.w # <<>> /\ v.b))

\* The number the decoder gave n.
Decoded(k) == Prop(TheSpan(k).params, "n")

\* C14: for {high, low, unsigned: false} the decoder returns the
\* two's-complement signed value of (high << 32) | (low & 0xFFFFFFFF), and
\* the result is negative exactly when bit 63 is set, for words given as
\* signed or as unsigned 32-bit numbers.
C14_SignedLongExact ==
  \A k \in Calls :
    Returned(k) /\ ~Truthy(Prop(TheLong(k), "unsigned")) =>
      /\ Decoded(k) = SignedValue(Word64(k))
      /\ IsNegative(Decoded(k)) <=> Word64(k)[4] >= 32768

\* C15: for {high, low, unsigned: true} the decoder never returns a negative
\* number, whatever the two 32-bit words are, signed or unsigned.
C15_UnsignedNeverNegative ==
  \A k \in Calls :
    Returned(k) /\ Truthy(Prop(TheLong(k), "unsigned")) =>
      ~IsNegative(Decoded(k))

(***************************************************************************)
(* Claims about the Attribute Path Expander.                               *)
(***************************************************************************)
\* The indexes i for which the k-th call's span has an attribute name.<i>.
IndexesUnder(k, name) ==
  {i \in 0..(Len(IndexKeys) - 1) :
     HasAttribute(TheAttributes(k), Key2(name, IndexKeys[i + 1]))}

RECURSIVE Ascending(_)
\* The numbers of a set in ascending order.
Ascending(S) ==
  IF S = {} THEN <<>>
  ELSE <<CHOOSE i \in S : \A j \in S : i <= j>>
         \o Ascending(S \ {CHOOSE i \in S : \A j \in S : i <= j})

\* The values of the attributes name.<i>, by ascending index.
ValuesByIndex(k, name) ==
  [p \in 1..Cardinality(IndexesUnder(k, name)) |->
     NativeValue(LastValue(TheAttributes(k),
       Key2(name, IndexKeys[Ascending(IndexesUnder(k, name))[p] + 1])))]

\* C16: whatever the order of the attributes a.<i> of a span is, params.a is
\* the sequence of their values by ascending index i (a.0 = "x" and
\* a.1 = "y" in either order give ["x", "y"]).
C16_ArrayByIndex ==
  \A k \in Calls :
    Returned(k) /\ IndexesUnder(k, "a") # {} =>
      Prop(TheSpan(k).params, "a") = ArrOf(ValuesByIndex(k, "a"))

\* a.1 = "y" came before a.0 = "x" and params.a is ["x", "y"].
C16_Witness ==
  \E k \in Calls :
    /\ Returned(k)
    /\ Len(TheAttributes(k)) >= 2
    /\ TheAttributes(k)[1] = KeyValue(Key2("a", "1"), StringValue("y"))
    /\ TheAttributes(k)[2] = KeyValue(Key2("a", "0"), StringValue("x"))
    /\ Prop(TheSpan(k).params, "a") = ArrOf(<<Str("x"), Str("y")>>)

(***************************************************************************)
(* Claims about Type, Input, Output and Params.                            *)
(***************************************************************************)
\* The decoded value of the span's attribute with the key, or undefined.
AttributeValue(k, key) == NativeValue(LastValue(TheAttributes(k), key))

\* The type the vendor's span.kind attribute names: its lower-cased text
\* when that is an allowed type, "" when the rule does not match.
KindNamed(k, vendor) ==
  IF /\ AttributeValue(k, SpanKindKey(vendor)).t = "str"
     /\ toLowerCase(AttributeValue(k, SpanKindKey(vendor)).s) \in allowedSpanTypes
  THEN toLowerCase(AttributeValue(k, SpanKindKey(vendor)).s)
  ELSE ""

\* The type of the span kind enum.
KindEnumType(kind) ==
  CASE kind \in {Num(2), Str("SPAN_KIND_SERVER")} -> "server"
    [] kind \in {Num(3), Str("SPAN_KIND_CLIENT")} -> "client"
    [] kind \in {Num(4), Str("SPAN_KIND_PRODUCER")} -> "producer"
    [] kind \in {Num(5), Str("SPAN_KIND_CONSUMER")} -> "consumer"
    [] OTHER -> "span"

\* The type of the last rule that matches, in the order span kind enum,
\* openinference.span.kind, traceloop.span.kind, llm.request.type.
LastMatchingType(k) ==
  IF AttributeValue(k, RequestTypeKey) \in {Str("chat"), Str("completion")}
  THEN "llm"
  ELSE IF KindNamed(k, "traceloop") # "" THEN KindNamed(k, "traceloop")
  ELSE IF KindNamed(k, "openinference") # "" THEN KindNamed(k, "openinference")
  ELSE KindEnumType(TheSource(k).kind)

\* C17: the span type is the type of the last rule that matches, in the
\* order span kind enum, openinference.span.kind, traceloop.span.kind (lower-
\* cased, matching only when in the allowed set), llm.request.type, and
\* "span" when none matches; a span.kind attribute whose lower-cased value is
\* not in the allowed set is in params with its value.
C17_LastTypeRuleWins ==
  \A k \in Calls :
    Returned(k) =>
      /\ TheSpan(k).type = LastMatchingType(k)
      /\ \A vendor \in {"openinference", "traceloop"} :
           /\ HasAttribute(TheAttributes(k), SpanKindKey(vendor))
           /\ KindNamed(k, vendor) = ""
           => GetPath(TheSpan(k).params, Split(SpanKindKey(vendor)))
                = AttributeValue(k, SpanKindKey(vendor))

\* A consumer span with openinference.span.kind "CHAIN" and
\* traceloop.span.kind "bogus", in that order, has type chain and the
\* traceloop attribute in params.
C17_Witness ==
  \E k \in Calls :
    /\ Returned(k)
    /\ TheSource(k).kind = Num(5)
    /\ AttributeValue(k, SpanKindKey("openinference")) = Str("CHAIN")
    /\ AttributeValue(k, SpanKindKey("traceloop")) = Str("bogus")
    /\ TheSpan(k).type = "chain"
    /\ GetPath(TheSpan(k).params, <<"traceloop", "span", "kind">>) = Str("bogus")

\* The messages under the message key of the elements of an array.
MessagesIn(source) ==
  ArrOf([i \in 1..Len(source.kids) |-> Prop(source.kids[i].v, "message")])

ChatTyped(messages) ==
  Obj(<<KV("type", Str("chat_messages")), KV("value", messages)>>)

\* A free-form value, typed text when it is a string and json otherwise.
FreeTyped(value) ==
  Obj(<<KV("type", Str(IF value.t = "str" THEN "text" ELSE "json")),
        KV("value", value)>>)

\* Whether each input strategy applies to the k-th call's span: its source is
\* present and valid.
InputApplies(k, i) ==
  CASE i = 1 -> /\ AttributeValue(k, InputMessagesKey).t = "arr"
                /\ ChatMessagesValid(MessagesIn(AttributeValue(k, InputMessagesKey)))
    [] i = 2 -> ChatMessagesValid(AttributeValue(k, PromptKey))
    [] i = 3 -> Truthy(AttributeValue(k, EntityInputKey))
    [] OTHER -> Truthy(AttributeValue(k, InputValueKey))

\* The input each strategy gives, and the key of its source.
InputFrom(k, i) ==
  CASE i = 1 -> ChatTyped(MessagesIn(AttributeValue(k, InputMessagesKey)))
    [] i = 2 -> ChatTyped(AttributeValue(k, PromptKey))
    [] i = 3 -> FreeTyped(AttributeValue(k, EntityInputKey))
    [] OTHER -> FreeTyped(AttributeValue(k, InputValueKey))

InputKeys == <<InputMessagesKey, PromptKey, EntityInputKey, InputValueKey>>

InputsApplying(k) == {i \in 1..4 : InputApplies(k, i)}

\* C18: the span's input is that of the first strategy, in the order
\* llm.input_messages, gen_ai.prompt, traceloop.entity.input, input.value,
\* whose source is present and valid, whatever later sources are present;
\* the source of that strategy is not in params; the input is null when no
\* strategy applies.
C18_FirstInputWins ==
  \A k \in Calls :
    Returned(k) =>
      IF InputsApplying(k) = {} THEN TheSpan(k).input = Null
      ELSE LET first == CHOOSE i \in InputsApplying(k) :
                          \A j \in InputsApplying(k) : i <= j
           IN /\ TheSpan(k).input = InputFrom(k, first)
              /\ GetPath(TheSpan(k).params, Split(InputKeys[first])) = Undef

\* With gen_ai.prompt, traceloop.entity.input and input.value all valid and
\* given in the reverse order, the input is the chat messages of gen_ai.prompt.
C18_Witness ==
  \E k \in Calls :
    /\ Returned(k)
    /\ InputsApplying(k) = {2, 3, 4}
    /\ TheAttributes(k)[1].key = InputValueKey
    /\ TheAttributes(k)[3].key = PromptKey
    /\ TheSpan(k).input = ChatTyped(ArrOf(<<MessageObj("assistant", "yo")>>))

\* Whether each output strategy applies to the k-th call's span.
OutputApplies(k, i) ==
  CASE i = 1 -> /\ AttributeValue(k, OutputKeys[1]).t = "arr"
                /\ ChatMessagesValid(MessagesIn(AttributeValue(k, OutputKeys[1])))
    [] i = 2 -> ChatMessagesValid(AttributeValue(k, OutputKeys[2]))
    [] OTHER -> Truthy(AttributeValue(k, OutputKeys[i]))

OutputFrom(k, i) ==
  CASE i = 1 -> ChatTyped(MessagesIn(AttributeValue(k, OutputKeys[1])))
    [] i = 2 -> ChatTyped(AttributeValue(k, OutputKeys[2]))
    [] OTHER -> FreeTyped(AttributeValue(k, OutputKeys[i]))

OutputsApplying(k) == {i \in 1..4 : OutputApplies(k, i)}

\* C19: the span's output is that of the first strategy, in the order
\* llm.output_messages, gen_ai.completion, traceloop.entity.output,
\* output.value, whose source is present and valid, and null when there is
\* none: an llm.output_messages that is malformed or fails the chat-message
\* validation is skipped and never becomes the output.
C19_InvalidOutputSkipped ==
  \A k \in Calls :
    Returned(k) =>
      TheSpan(k).output
        = IF OutputsApplying(k) = {} THEN Null
          ELSE OutputFrom(k, CHOOSE i \in OutputsApplying(k) :
                               \A j \in OutputsApplying(k) : i <= j)

\* Whether the value is what the span's field (input or output) holds, as
\* chat messages or as a free-form value: the field was set from it.
SetFrom(field, value) ==
  /\ Truthy(value)
  /\ \/ field = FreeTyped(value)
     \/ field = ChatTyped(value)
     \/ value.t = "arr" /\ field = ChatTyped(MessagesIn(value))

\* The keys of the attributes of the k-th call's span that the mapper
\* consumed: to set type, model, input, output, the trace's metadata, and
\* the params it extracts.
ConsumedKeys(k) ==
  {SpanKindKey(vendor) : vendor \in {v \in {"openinference", "traceloop"} :
                                      KindNamed(k, v) # ""}}
    \cup {key \in {RequestTypeKey} :
            AttributeValue(k, key) \in {Str("chat"), Str("completion")}}
    \cup {ModelKeys[i] : i \in {j \in 1..3 : Truthy(AttributeValue(k, ModelKeys[j]))}}
    \cup {InputKeys[i] : i \in {j \in 1..4 :
            SetFrom(TheSpan(k).input, AttributeValue(k, InputKeys[j]))}}
    \cup {OutputKeys[i] : i \in {j \in 1..4 :
            SetFrom(TheSpan(k).output, AttributeValue(k, OutputKeys[j]))}}
    \cup {key \in {Key2("user", "id"), Key2("session", "id"),
                   Key2("llm", "invocation_parameters"), Key2("llm", "is_streaming")} :
            Truthy(AttributeValue(k, key))}
    \cup {key \in {Key2("tag", "tags")} : AttributeValue(k, key).t = "arr"}
    \cup {key \in {Key1("metadata")} :
            LastValue(TheAttributes(k), key).kind = "kvlistValue"}

\* C20: no attribute path that the mapper consumed to set type, model,
\* input, output, trace metadata, or the params taken from the invocation
\* parameters and the streaming flag, is in the span's params.
C20_ConsumedNotInParams ==
  \A k \in Calls :
    Returned(k) =>
      \A key \in ConsumedKeys(k) :
        GetPath(TheSpan(k).params, Split(key)) = Undef

\* A span whose user.id and llm.model_name were consumed has only the scope
\* and its llm.top_p in params.
C20_Witness ==
  \E k \in Calls :
    /\ Returned(k)
    /\ ConsumedKeys(k) = {Key2("user", "id"), ModelKeys[1]}
    /\ TheSpan(k).model = Str("gpt-4")
    /\ TheSpan(k).params
         = Obj(<<KV("llm", Obj(<<KV("top_p", Num(5))>>)),
                 KV("scope", Obj(<<KV("name", Str("lib"))>>))>>)

(***************************************************************************)
(* Claims about the streaming flag.                                        *)
(***************************************************************************)
\* The llm.is_streaming attribute of the k-th call's span, as it is on the
\* wire.
StreamingSent(k) == LastValue(TheAttributes(k), StreamingKey)

SaysFalse(value) ==
  value.kind = "stringValue" /\ value.v \in {Str("false"), Str("False")}

\* C21: for a span with the llm.is_streaming attribute, params.stream is a
\* boolean and params.llm holds no is_streaming: stream is false when the
\* attribute is the string "false" or the string "False", and true when it
\* is any other truthy value.
C21_StreamIsBoolean ==
  \A k \in Calls :
    Returned(k) /\ HasAttribute(TheAttributes(k), StreamingKey) =>
      /\ Prop(TheSpan(k).params, "stream").t = "bool"
      /\ GetPath(TheSpan(k).params, <<"llm", "is_streaming">>) = Undef
      /\ SaysFalse(StreamingSent(k)) => Prop(TheSpan(k).params, "stream") = Bool(FALSE)
      /\ Truthy(StreamingSent(k).v) /\ ~SaysFalse(StreamingSent(k))
           => Prop(TheSpan(k).params, "stream") = Bool(TRUE)

\* The last event named "exception" of a span that has one.
LastException(otelSpan) ==
  otelSpan.events[CHOOSE i \in 1..Len(otelSpan.events) :
                    /\ otelSpan.events[i].name = "exception"
                    /\ \A j \in (i + 1)..Len(otelSpan.events) :
                         otelSpan.events[j].name # "exception"]

\* The decoded value of an attribute of an event, or undefined.
EventValue(event, key) == NativeValue(LastValue(event.attributes, key))

\* The message the claim gives the error of an exception event.
ExceptionMessage(event, status) ==
  IF /\ Truthy(EventValue(event, Key2("exception", "type")))
     /\ Truthy(EventValue(event, Key2("exception", "message")))
  THEN TypeAndMessage(EventValue(event, Key2("exception", "type")),
                      EventValue(event, Key2("exception", "message")))
  ELSE IF status.message.t = "str" THEN status.message
  ELSE Str("Exception")

\* C22: a span with events named "exception" has the error record of the
\* last of them in event order, whatever its status is: the message is
\* "{type}: {message}" when the event has both exception.type and
\* exception.message, else the status message or "Exception"; the stacktrace
\* is the lines of exception.stacktrace, or [] when the event has none.
C22_LastExceptionWins ==
  \A k \in Calls :
    Returned(k) /\ HasExceptionEvent(TheSource(k)) =>
      TheSpan(k).error
        = Obj(<<KV("has_error", Bool(TRUE)),
                KV("message", ExceptionMessage(LastException(TheSource(k)),
                                               TheSource(k).status)),
                KV("stacktrace",
                   IF Truthy(EventValue(LastException(TheSource(k)),
                                        Key2("exception", "stacktrace")))
                   THEN ArrOf(SplitLines(EventValue(LastException(TheSource(k)),
                                           Key2("exception", "stacktrace")).s))
                   ELSE ArrOf(<<>>))>>)

\* A span of status code 2 and message "boom" with two exception events, the
\* first with a stacktrace, has the error of the second.
C22_Witness ==
  \E k \in Calls :
    /\ Returned(k)
    /\ TheSource(k).status = [code |-> Num(2), message |-> Str("boom")]
    /\ Len(TheSource(k).events) = 2
    /\ EventValue(TheSource(k).events[1], Key2("exception", "type")) = Str("ValueError")
    /\ TheSpan(k).error
         = Obj(<<KV("has_error", Bool(TRUE)), KV("message", Str("KeyError: gone")),
                 KV("stacktrace", ArrOf(<<>>))>>)

\* What the request says of a time value.
TimeSaid(value) == CHOOSE p \in TimePool : p.value = value

\* The field of the timestamps is the milliseconds of the time, or is not
\* there when the time is no number of nanoseconds.
NormalizedAs(timestamps, field, time) ==
  IF TimeSaid(time).nanos
  THEN HasKey(timestamps, field) /\ Prop(timestamps, field) = TimeSaid(time).millis
  ELSE ~HasKey(timestamps, field)

\* C23: started_at and finished_at are left out when the span's start or end
\* time is absent, zero or unparsable, and for every other time of n
\* nanoseconds, a decimal string, a number or split words, the field is there
\* and is round(n / 1e6).
C23_TimestampRounded ==
  \A k \in Calls :
    Returned(k) =>
      /\ NormalizedAs(TheSpan(k).timestamps, "started_at",
                      TheSource(k).startTimeUnixNano)
      /\ NormalizedAs(TheSpan(k).timestamps, "finished_at",
                      TheSource(k).endTimeUnixNano)

\* The resource attributes of the groups of a request that hold a span whose
\* id, once decoded, is the trace id; in request order.
Contributing(otelTrace, traceId) ==
  Flatten([r \in 1..Len(otelTrace.resourceSpans) |->
    IF \E i \in 1..Len(otelTrace.resourceSpans[r].scopeSpans[1].spans) :
         HexOf(otelTrace.resourceSpans[r].scopeSpans[1].spans[i].traceId) = traceId
    THEN otelTrace.resourceSpans[r].resource.attributes
    ELSE <<>>])

\* C24: the customMetadata of an output trace has a key for a resource
\* attribute only when a resource group with a span of the trace has the
\* attribute, and it has every such attribute under the whole dotted key,
\* unexpanded, with the value of the attribute.
C24_ResourceMetadataOfTrace ==
  \A k \in Calls :
    Returned(k) =>
      \A i \in 1..Len(results[k].traces) :
        LET trace == results[k].traces[i]
            attributes == Contributing(InputOf(k), trace.traceId)
        IN /\ \A e \in 1..Len(trace.customMetadata.kids) :
                \E a \in 1..Len(attributes) :
                  FlatKey(attributes[a].key) = trace.customMetadata.kids[e].k
           /\ \A a \in 1..Len(attributes) :
                Prop(trace.customMetadata, FlatKey(attributes[a].key))
                  = LastValue(attributes, attributes[a].key).v

\* The native equivalent of a typed value with one variant: the value of
\* the variant, and for a string its JSON parse, null for "None", or the
\* string itself.
NativeOf(value) ==
  IF value = StringValue("None") THEN Null ELSE NativeValue(value)

\* The typed values of the metadata map of the k-th call's span.
ValuesSent(k) == LastValue(TheAttributes(k), Key1("metadata")).values

\* C25: the Value Decoder raises no error and gives a typed value with one
\* variant its native equivalent: b for boolValue b, true or false, n for
\* intValue or doubleValue n, 0 too, the JSON parse of a string or the
\* string itself, null for "None", and undefined for a value with no variant.
C25_DecodesEveryVariant ==
  \A k \in Calls :
    /\ ~results[k].threw
    /\ \A i \in 1..Len(ValuesSent(k)) :
         Prop(results[k].traces[1].customMetadata, ValuesSent(k)[i].key)
           = NativeOf(ValuesSent(k)[i].value)

\* C26: an output span has an error record exactly when the status code of
\* its source is 2 or STATUS_CODE_ERROR or the source has an event named
\* "exception"; the record's has_error is true, and a span with neither has
\* no error field.
C26_ErrorIffSource ==
  \A k \in Calls :
    Returned(k) =>
      /\ TheSpan(k).error # Undef
           <=> \/ TheSource(k).status.code \in {Num(2), Str("STATUS_CODE_ERROR")}
               \/ HasExceptionEvent(TheSource(k))
      /\ TheSpan(k).error # Undef
           => Prop(TheSpan(k).error, "has_error") = Bool(TRUE)

\* A span of status code 1 whose one event is an exception has an error
\* record with has_error true.
C26_Witness ==
  \E k \in Calls :
    /\ Returned(k)
    /\ TheSource(k).status.code = Num(1)
    /\ Len(TheSource(k).events) = 1
    /\ HasExceptionEvent(TheSource(k))
    /\ Prop(TheSpan(k).error, "has_error") = Bool(TRUE)

\* The last of the spans that has an attribute of the key, or 0.
LastSpanWith(spans, key) ==
  IF \E i \in 1..Len(spans) : HasAttribute(spans[i].attributes, key)
  THEN CHOOSE i \in 1..Len(spans) :
         /\ HasAttribute(spans[i].attributes, key)
         /\ \A j \in (i + 1)..Len(spans) : ~HasAttribute(spans[j].attributes, key)
  ELSE 0

\* The native value of an attribute that is a string or a list of strings.
NativeList(value) ==
  IF value.kind = "arrayValue"
  THEN ArrOf([i \in 1..Len(value.values) |-> NativeValue(value.values[i])])
  ELSE NativeValue(value)

\* The field of the metadata holds what the last span with the key says, and
\* is not there when no span has the key.
FromLastSpan(metadata, field, spans, key) ==
  IF LastSpanWith(spans, key) = 0 THEN ~HasKey(metadata, field)
  ELSE Prop(metadata, field)
         = NativeList(LastValue(spans[LastSpanWith(spans, key)].attributes, key))

\* The entries of the metadata map of a span that have the name.
MapEntries(span, name) ==
  SelectSeq(LastValue(span.attributes, Key1("metadata")).values,
            LAMBDA e : e.key = name)

\* The same for a name of the generic metadata map.
FromLastMap(metadata, spans, name) ==
  IF \A i \in 1..Len(spans) : MapEntries(spans[i], name) = <<>>
  THEN ~HasKey(metadata, name)
  ELSE Prop(metadata, name)
         = NativeValue(MapEntries(spans[CHOOSE i \in 1..Len(spans) :
                         /\ MapEntries(spans[i], name) # <<>>
                         /\ \A j \in (i + 1)..Len(spans) :
                              MapEntries(spans[j], name) = <<>>], name)[1].value)

\* C27: the metadata of a trace gathers over its spans in encounter order:
\* user_id, thread_id, labels and every key of the metadata map hold the
\* value of the last span of the trace that sets user.id, session.id,
\* tag.tags or the key, and a later span without it removes nothing.
C27_MetadataAccumulates ==
  \A k \in Calls :
    Returned(k) =>
      LET trace == results[k].traces[1]
          spans == SpansOf(InputOf(k))
      IN /\ FromLastSpan(trace.reservedTraceMetadata, "user_id", spans,
                         Key2("user", "id"))
         /\ FromLastSpan(trace.reservedTraceMetadata, "thread_id", spans,
                         Key2("session", "id"))
         /\ FromLastSpan(trace.reservedTraceMetadata, "labels", spans,
                         Key2("tag", "tags"))
         /\ FromLastMap(trace.customMetadata, spans, "foo")
         /\ FromLastMap(trace.customMetadata, spans, "bar")

\* A trace of three spans with the metadata foo = "x", then bar = "z" and
\* session.id = "t2", then foo = "y", holds foo = "y", bar = "z" and the
\* thread_id "t2".
C27_Witness ==
  \E k \in Calls :
    /\ Returned(k)
    /\ Len(SpansOf(InputOf(k))) = 3
    /\ MapEntries(SpansOf(InputOf(k))[1], "foo") # <<>>
    /\ results[k].traces[1].customMetadata
         = Obj(<<KV("foo", Str("y")), KV("bar", Str("z"))>>)
    /\ results[k].traces[1].reservedTraceMetadata
         = Obj(<<KV("thread_id", Str("t2"))>>)

\* The events of a span that are named as a first token event, in order.
TokenEvents(otelSpan) ==
  SelectSeq(otelSpan.events,
            LAMBDA e : e.name \in {"First Token Stream Event",
                                   "llm.content.completion.chunk"})

\* C28: first_token_at comes from the first event named "First Token Stream
\* Event" or "llm.content.completion.chunk" alone: it is left out when no
\* event has such a name, it is left out when the time of the first such
\* event is absent, zero or unparsable, whatever the later events are, and
\* when it is there it is the milliseconds of the first such event.
C28_FirstTokenFromFirstEvent ==
  \A k \in Calls :
    Returned(k) =>
      LET tokens == TokenEvents(TheSource(k))
          timestamps == TheSpan(k).timestamps
      IN /\ tokens = <<>> => ~HasKey(timestamps, "first_token_at")
         /\ tokens # <<>> /\ ~TimeSaid(tokens[1].timeUnixNano).nanos
              => ~HasKey(timestamps, "first_token_at")
         /\ HasKey(timestamps, "first_token_at")
              => Prop(timestamps, "first_token_at")
                   = TimeSaid(tokens[1].timeUnixNano).millis

\* A span whose first chunk event has the time 0 and whose first token event
\* after it has the time "1500000" has no first_token_at.
C28_Witness ==
  \E k \in Calls :
    /\ Returned(k)
    /\ Len(TheSource(k).events) = 2
    /\ TheSource(k).events[1].name = "llm.content.completion.chunk"
    /\ TheSource(k).events[1].timeUnixNano = Num(0)
    /\ TheSource(k).events[2].name = "First Token Stream Event"
    /\ TheSource(k).events[2].timeUnixNano = Str("1500000")
    /\ ~HasKey(TheSpan(k).timestamps, "first_token_at")
====
